---------------------------- MODULE Spec2Model ----------------------------
(***************************************************************************)
(* A model of the 3D-tiles ingestion and collision-query program.          *)
(*                                                                         *)
(* Coordinates are integers: every operation modelled here (sums,          *)
(* differences and products of the inputs) is exact on IEEE doubles for    *)
(* the integer inputs enumerated below.                                    *)
(*                                                                         *)
(* Optional values (Python None) are sequences of length 0 or 1:           *)
(* None == <<>> and Some(v) == <<v>>.                                      *)
(***************************************************************************)
EXTENDS Integers, Sequences, FiniteSets, TLC

None == <<>>
Some(v) == <<v>>
IsNone(o) == o = <<>>
TheValue(o) == o[1]

(***************************************************************************)
(* Bounds of the model.                                                    *)
(***************************************************************************)
\* Number of tiles of a tileset (root included), for the collect functions.
MaxTiles == 3
\* Number of tiles of the tileset an ingestion run reads.
MaxIngestTiles == 4
\* Number of ingestion runs (POST /init-data) in one behaviour.
MaxRuns == 2
\* Number of values uuid.uuid4() can return.
MaxUuids == 4
\* Length of the building_data list handed to insert_buildings_to_postgis.
MaxData == 2
\* the x and y of the query points are at most this far from the origin
MaxCoord == 2
\* page_size of execute_batch; the source passes 100, scaled down here so
\* that one run spans several pages.
PageSize == 2

(***************************************************************************)
(* Sequence helpers.                                                       *)
(***************************************************************************)
RECURSIVE Flatten(_)
Flatten(ss) == IF ss = <<>> THEN <<>> ELSE Head(ss) \o Flatten(Tail(ss))

Range(s) == {s[i] : i \in 1..Len(s)}

Min2(a, b) == IF a <= b THEN a ELSE b

SetMax(S) == CHOOSE m \in S : \A x \in S : x <= m
SetMin(S) == CHOOSE m \in S : \A x \in S : m <= x

\* Python slice s[a:b] (0-based, end exclusive, clipped to the length).
Slice(s, a, b) == [i \in 1..(IF Min2(b, Len(s)) > a THEN Min2(b, Len(s)) - a ELSE 0) |-> s[a + i]]

(***************************************************************************)
(* Vectors and 4x4 matrices.  A numpy matrix is the tuple of its 4 rows,   *)
(* each a tuple of 4 entries: M[r][c] is the entry of row r, column c      *)
(* (1-based).                                                              *)
(***************************************************************************)
\* A float64 scalar is an integer, or the float NaN (json.load reads the
\* literal NaN of a tileset.json), written as an integer that no finite
\* scalar of the model takes.  A sum or difference with NaN is NaN.
NaN == -2147483647
FAdd(a, b) == IF a = NaN \/ b = NaN THEN NaN ELSE a + b
FSub(a, b) == IF a = NaN \/ b = NaN THEN NaN ELSE a - b

VAdd(a, b) == <<FAdd(a[1], b[1]), FAdd(a[2], b[2]), FAdd(a[3], b[3])>>
VSub(a, b) == <<FSub(a[1], b[1]), FSub(a[2], b[2]), FSub(a[3], b[3])>>

\* np.eye(4)
Eye4 == << <<1, 0, 0, 0>>, <<0, 1, 0, 0>>, <<0, 0, 1, 0>>, <<0, 0, 0, 1>> >>

\* the product of row and column over the first three entries only
Dot4Linear(A, B, r, c) == A[r][1] * B[1][c] + A[r][2] * B[2][c] + A[r][3] * B[3][c]

Dot4(A, B, r, c) == A[r][1] * B[1][c] + A[r][2] * B[2][c] + A[r][3] * B[3][c] + A[r][4] * B[4][c]

\* A @ B for 4x4 numpy matrices
MatMul(A, B) ==
  << <<Dot4(A, B, 1, 1), Dot4(A, B, 1, 2), Dot4(A, B, 1, 3), Dot4(A, B, 1, 4)>>,
     <<Dot4(A, B, 2, 1), Dot4(A, B, 2, 2), Dot4(A, B, 2, 3), Dot4(A, B, 2, 4)>>,
     <<Dot4(A, B, 3, 1), Dot4(A, B, 3, 2), Dot4(A, B, 3, 3), Dot4(A, B, 3, 4)>>,
     <<Dot4(A, B, 4, 1), Dot4(A, B, 4, 2), Dot4(A, B, 4, 3), Dot4(A, B, 4, 4)>> >>

\* _matrix_from_column_major: reshape((4, 4), order='F') of a flat array of
\* exactly 16 elements (the entry of row r, column c is array[4 (c-1) + r],
\* 1-based); any other length raises ValueError.
CanReshape(array) == Len(array) = 16
matrix_from_column_major(array) ==
  << <<array[1], array[5], array[9], array[13]>>,
     <<array[2], array[6], array[10], array[14]>>,
     <<array[3], array[7], array[11], array[15]>>,
     <<array[4], array[8], array[12], array[16]>> >>

\* _apply_transform of the footprint pipeline: matrix @ [x, y, z, 1], first
\* three components, no perspective divide.  The matrix entries are finite;
\* a NaN component of the point makes every product with it NaN (0 * NaN is
\* NaN), so all three sums.
apply_transform_core(point, matrix) ==
  IF point[1] = NaN \/ point[2] = NaN \/ point[3] = NaN THEN <<NaN, NaN, NaN>>
  ELSE
  << matrix[1][1] * point[1] + matrix[1][2] * point[2] + matrix[1][3] * point[3] + matrix[1][4],
     matrix[2][1] * point[1] + matrix[2][2] * point[2] + matrix[2][3] * point[3] + matrix[2][4],
     matrix[3][1] * point[1] + matrix[3][2] * point[2] + matrix[3][3] * point[3] + matrix[3][4] >>

(***************************************************************************)
(* The tile tree (the input of every pipeline).                            *)
(*                                                                         *)
(* A tile: transform (optional flat list), bounding_volume (optional, with *)
(* an optional _box list), content_uri (optional), _refine, children (the  *)
(* ordered list of child tile numbers).  A content reference is modelled   *)
(* by its name and its last characters (the suffix), which is all that     *)
(* str.lower().endswith(".b3dm") reads.                                    *)
(***************************************************************************)
Translate(tx, ty, tz) == <<1, 0, 0, 0,  0, 1, 0, 0,  0, 0, 1, 0,  tx, ty, tz, 1>>
\* rotation by 90 degrees about the z axis, column-major
RotZ90 == <<0, 1, 0, 0,  -1, 0, 0, 0,  0, 0, 1, 0,  0, 0, 0, 1>>
\* malformed transforms: 7 elements, 2 elements
Malformed7 == <<5, 0, 0, 0, 0, 0, 0>>
Malformed2 == <<5, 0>>

\* center (0,0,5), half axes (1,0,0), (0,1,0), (0,0,5)
BandBox == <<0, 0, 5,  1, 0, 0,  0, 1, 0,  0, 0, 5>>
\* center (1,1,10), half axes (1,0,0), (0,1,0), (0,0,5)
HighBox == <<1, 1, 10,  1, 0, 0,  0, 1, 0,  0, 0, 5>>
\* zero z half-axis: bottom and top corners coincide
FlatBox == <<0, 0, 0,  1, 0, 0,  0, 1, 0,  0, 0, 0>>
\* a descriptor of 6 scalars (center and three half lengths)
ShortBox == <<0, 0, 0,  1, 1, 1>>
\* BandBox with a center whose x is NaN
NanBox == <<NaN, 0, 5,  1, 0, 0,  0, 1, 0,  0, 0, 5>>

Uri(name, suffix) == [name |-> name, suffix |-> suffix]
BoxVolume(box) == Some([box |-> Some(box)])
\* a bounding volume that is a region or a sphere: its _box is None
RegionVolume == Some([box |-> None])

TileKind(t, bv, uri) == [transform |-> t, bounding_volume |-> bv, content_uri |-> uri, refine |-> "ADD"]

TileKinds ==
  { TileKind(Some(Translate(10, 0, 0)), BoxVolume(HighBox), None),
    TileKind(None, BoxVolume(BandBox), Some(Uri("a", ".b3dm"))),
    TileKind(Some(RotZ90), BoxVolume(HighBox), Some(Uri("b", ".B3DM"))),
    TileKind(None, BoxVolume(BandBox), Some(Uri("c", ".json"))),
    TileKind(None, BoxVolume(FlatBox), Some(Uri("d", ".b3dm"))),
    TileKind(None, BoxVolume(ShortBox), Some(Uri("e", ".b3dm"))),
    TileKind(Some(Malformed7), BoxVolume(BandBox), Some(Uri("f", ".b3dm"))),
    TileKind(Some(Malformed2), RegionVolume, None),
    TileKind(None, None, Some(Uri("g", ".b3dm"))) }

\* The tree shapes over tiles 1..n: tile 1 is the root and the parent of
\* tile i > 1 is a tile of smaller number.
ParentMaps(n) == {p \in [2..n -> 1..n] : \A i \in 2..n : p[i] < i}

RECURSIVE SortedSeq(_)
SortedSeq(S) == IF S = {} THEN <<>> ELSE <<SetMin(S)>> \o SortedSeq(S \ {SetMin(S)})

ChildrenOf(p, n, i) == SortedSeq({j \in 2..n : p[j] = i})

\* The tileset of n tiles with the attributes k[i] and the parents p[i].
MakeTileset(n, k, p) ==
  [i \in 1..n |->
     [transform |-> k[i].transform, bounding_volume |-> k[i].bounding_volume,
      content_uri |-> k[i].content_uri, refine |-> k[i].refine,
      children |-> ChildrenOf(p, n, i)]]

TilesetDir == "3dtiles"

\* the suffix of a content reference as it is written
LowerAsWritten(suffix) == suffix

\* str.lower() on the suffix of a content reference
Lower(suffix) == IF suffix = ".B3DM" THEN ".b3dm" ELSE suffix
\* str(tile_url).lower().endswith(".b3dm")
EndsWithB3dm(uri) == Lower(uri.suffix) = ".b3dm"

(***************************************************************************)
(* Footprint pipeline of src/core/tilesParserSinglePoligonZ.py.            *)
(***************************************************************************)
\* f"{x:.6f}" of an integral value: the digits before and after the point
\* (integer part whole * 10^e10), and the sign
Abs(x) == IF x < 0 THEN -x ELSE x
Fixed6(x) ==
  IF x = NaN THEN [text |-> "nan"]
  ELSE [neg |-> x < 0, whole |-> Abs(x), e10 |-> 0, frac |-> 0]
FormatPoint(p) == <<Fixed6(p[1]), Fixed6(p[2]), Fixed6(p[3])>>

\* CornersLocal with the third and fourth corner of each face exchanged
CornersLocalCrossed(box) ==
  LET c == Slice(box, 0, 3)
      x == Slice(box, 3, 6)
      y == Slice(box, 6, 9)
      z == Slice(box, 9, 12)
  IN << VSub(VSub(VSub(c, x), y), z), VSub(VSub(VAdd(c, x), y), z),
        VSub(VAdd(VSub(c, x), y), z), VSub(VAdd(VAdd(c, x), y), z),
        VAdd(VSub(VSub(c, x), y), z), VAdd(VSub(VAdd(c, x), y), z),
        VAdd(VAdd(VSub(c, x), y), z), VAdd(VAdd(VAdd(c, x), y), z) >>

\* the 8 corners of a 12-scalar box, lines 113-128
CornersLocal(box) ==
  LET c == Slice(box, 0, 3)
      x == Slice(box, 3, 6)
      y == Slice(box, 6, 9)
      z == Slice(box, 9, 12)
  IN << VSub(VSub(VSub(c, x), y), z), VSub(VSub(VAdd(c, x), y), z),
        VSub(VAdd(VAdd(c, x), y), z), VSub(VAdd(VSub(c, x), y), z),
        VAdd(VSub(VSub(c, x), y), z), VAdd(VSub(VAdd(c, x), y), z),
        VAdd(VAdd(VAdd(c, x), y), z), VAdd(VAdd(VSub(c, x), y), z) >>

\* The numpy arithmetic of lines 113-128 raises (shape mismatch) when a slice
\* of the descriptor is empty; the descriptors enumerated have 6 or 12 scalars.
BoxProcessable(box) == Len(box) >= 12

\* the z of the first top corner minus the z of the first bottom corner
LocalHeightTopMinusBottom(corners_local) == corners_local[5][3] - corners_local[1][3]

\* max(z_values) - min(z_values) over the local corners, lines 141-142
LocalHeight(corners_local) ==
  LET z_values == {corners_local[i][3] : i \in 1..Len(corners_local)}
  IN SetMax(z_values) - SetMin(z_values)

\* lines 110-157: the body of the try block for a leaf with a box; an
\* exception inside it is caught and the tile contributes nothing.
LeafBounds(tile, current_transform, tileset_dir) ==
  LET box == TheValue(TheValue(tile.bounding_volume).box)
      \* lines 130-157, reading the corners computed by lines 113-128
      Record(corners_local, matrix) ==
        LET corners_world == [i \in 1..8 |-> apply_transform_core(corners_local[i], matrix)]
            bottom == Slice(corners_world, 0, 4) \o <<corners_world[1]>>
            polygon_ewkt == [kind |-> "POLYGON Z", coords |-> [i \in 1..5 |-> FormatPoint(bottom[i])]]
            height == LocalHeight(corners_local)
            tile_url == tile.content_uri
        IN IF ~IsNone(tile_url) /\ EndsWithB3dm(TheValue(tile_url))
           THEN << [bounding_volume |-> polygon_ewkt, tile_url |-> tile_url,
                    refine |-> tile.refine, tileset_dir |-> tileset_dir, height |-> Some(height)] >>
           ELSE <<>>
  IN IF ~BoxProcessable(box) THEN <<>>
     ELSE CHOOSE bounds \in {Record(corners_local, matrix) :
                              corners_local \in {CornersLocal(box)}, matrix \in {current_transform}} : TRUE

\* CurrentTransform with the factors of the product exchanged
CurrentTransformLocalFirst(tile, parent_transform) ==
  IF ~IsNone(tile.transform) /\ CanReshape(TheValue(tile.transform))
  THEN MatMul(matrix_from_column_major(TheValue(tile.transform)), parent_transform)
  ELSE parent_transform

\* lines 91-98: the world transform of a tile
CurrentTransform(tile, parent_transform) ==
  IF ~IsNone(tile.transform) /\ CanReshape(TheValue(tile.transform))
  THEN MatMul(parent_transform, matrix_from_column_major(TheValue(tile.transform)))
  ELSE parent_transform

HasBox(tile) == ~IsNone(tile.bounding_volume) /\ ~IsNone(TheValue(tile.bounding_volume).box)

\* _recursive_collect, lines 81-166
RECURSIVE recursive_collect_core(_, _, _)
recursive_collect_core(ts, n, parent_transform) ==
  LET tile == ts[n]
      current_transform == CurrentTransform(tile, parent_transform)
      is_leaf == tile.children = <<>>
      own == IF is_leaf /\ HasBox(tile) THEN LeafBounds(tile, current_transform, TilesetDir) ELSE <<>>
  IN own \o Flatten([i \in 1..Len(tile.children) |->
                       recursive_collect_core(ts, tile.children[i], current_transform)])

\* collect_tileset_bounds, line 168
collect_tileset_bounds_core(ts) == recursive_collect_core(ts, 1, Eye4)

(***************************************************************************)
(* A call that may raise: [raised, list].                                  *)
(***************************************************************************)
Raised == [raised |-> TRUE, list |-> <<>>]
Returned(list) == [raised |-> FALSE, list |-> list]

(***************************************************************************)
(* Footprint pipeline of src/3DTilesParserSinglePoligon.py.                *)
(***************************************************************************)
\* box_to_polygonz, lines 63-89: the bottom face and its first corner again;
\* indexes the three components of each axis (IndexError on a short list).
box_to_polygonz(box) ==
  LET c == Slice(box, 0, 3)
      x == Slice(box, 3, 6)
      y == Slice(box, 6, 9)
      z == Slice(box, 9, 12)
      pts == << VSub(VSub(VSub(c, x), y), z), VSub(VSub(VAdd(c, x), y), z),
                VSub(VAdd(VAdd(c, x), y), z), VSub(VAdd(VSub(c, x), y), z) >>
  IN pts \o <<pts[1]>>

\* lines 101-144: what the tile itself contributes.  "skip" is the early
\* return [] of lines 118-128, which leaves the function before the loop
\* over the children.
OwnSingle(tile, tileset_dir) ==
  LET bv == tile.bounding_volume
  IN IF IsNone(bv) THEN [outcome |-> "none", list |-> <<>>]
     ELSE IF IsNone(TheValue(bv).box) THEN [outcome |-> "raise", list |-> <<>>]
     ELSE
       LET box == TheValue(TheValue(bv).box)
       IN IF Len(box) < 12 THEN [outcome |-> "raise", list |-> <<>>]
          ELSE
            LET points == box_to_polygonz(box)
                height == (box[3] + box[12]) - (box[3] - box[12])
                tile_url == tile.content_uri
            IN IF IsNone(tile_url) THEN [outcome |-> "skip", list |-> <<>>]
               ELSE IF ~EndsWithB3dm(TheValue(tile_url)) THEN [outcome |-> "skip", list |-> <<>>]
               ELSE [outcome |-> "record",
                     list |-> << [bounding_volume |->
                                    [kind |-> "POLYGON Z", coords |-> [i \in 1..5 |-> FormatPoint(points[i])]],
                                  tile_url |-> tile_url, refine |-> tile.refine,
                                  tileset_dir |-> tileset_dir, height |-> Some(height)] >>]

\* _recursive_collect, lines 98-149
RECURSIVE recursive_collect_single(_, _)
recursive_collect_single(ts, n) ==
  LET tile == ts[n]
      own == OwnSingle(tile, TilesetDir)
      kids == [i \in 1..Len(tile.children) |-> recursive_collect_single(ts, tile.children[i])]
  IN IF own.outcome = "raise" THEN Raised
     ELSE IF own.outcome = "skip" THEN Returned(<<>>)
     ELSE IF \E i \in 1..Len(kids) : kids[i].raised THEN Raised
     ELSE Returned(own.list \o Flatten([i \in 1..Len(kids) |-> kids[i].list]))

collect_tileset_bounds_single(ts) == recursive_collect_single(ts, 1)

(***************************************************************************)
(* Multipolygon pipeline of src/3DTilesParserPoligonZ.py.                  *)
(*                                                                         *)
(* Its apply_transform divides by the homogeneous weight, so a coordinate  *)
(* is a quotient <<num, den>> in lowest terms with den > 0; den = 0 stands *)
(* for the divisor 1e-10 that replaces a weight of magnitude below 1e-10.  *)
(***************************************************************************)
RECURSIVE Gcd(_, _)
Gcd(a, b) == IF b = 0 THEN a ELSE Gcd(b, a % b)

\* float(x_new / w_new), after lines 180-181 replaced a vanishing w_new
Quotient(num, w) ==
  IF num = 0 THEN <<0, 1>>
  ELSE IF w = 0 THEN <<num, 0>>
  ELSE LET g == Gcd(Abs(num), Abs(w))
       IN IF w > 0 THEN <<num \div g, w \div g>> ELSE <<(-num) \div g, (-w) \div g>>

\* multiply, lines 170-187 (matrix is the flat list, 0-based in the source)
multiply_multi(matrix, x, y, z) ==
  LET x_new == matrix[1] * x + matrix[5] * y + matrix[9] * z + matrix[13]
      y_new == matrix[2] * x + matrix[6] * y + matrix[10] * z + matrix[14]
      z_new == matrix[3] * x + matrix[7] * y + matrix[11] * z + matrix[15]
      w_new == matrix[4] * x + matrix[8] * y + matrix[12] * z + matrix[16]
  IN <<Quotient(x_new, w_new), Quotient(y_new, w_new), Quotient(z_new, w_new)>>

\* lines 160-167: cut or pad the flat list to 16 entries, then replace a zero
\* on the diagonal by 1
FlatMatrix(transform_matrix) ==
  LET padded == [i \in 1..16 |-> IF i <= Len(transform_matrix) THEN transform_matrix[i] ELSE 0]
  IN [i \in 1..16 |-> IF i \in {1, 6, 11, 16} /\ padded[i] = 0 THEN 1 ELSE padded[i]]

\* apply_transform, lines 141-192
apply_transform_multi(points, transform_matrix) ==
  LET flat_matrix == FlatMatrix(transform_matrix)
  IN [i \in 1..Len(points) |-> multiply_multi(flat_matrix, points[i][1], points[i][2], points[i][3])]

\* f"{x:.6f}" of a quotient
Fixed6Q(q) ==
  IF q[2] = 0 THEN [neg |-> q[1] < 0, whole |-> Abs(q[1]), e10 |-> 10, frac |-> 0]
  ELSE LET a == Abs(q[1])
           f == (((a % q[2]) * 2000000) + q[2]) \div (2 * q[2])
       IN IF f = 1000000
          THEN [neg |-> q[1] < 0, whole |-> (a \div q[2]) + 1, e10 |-> 0, frac |-> 0]
          ELSE [neg |-> q[1] < 0, whole |-> a \div q[2], e10 |-> 0, frac |-> f]

\* the face table of create_multipolygon_wkt, lines 226-233 (0-based)
Faces == << <<0, 1, 2, 3>>, <<4, 5, 6, 7>>, <<0, 1, 5, 4>>, <<1, 2, 6, 5>>, <<2, 3, 7, 6>>, <<3, 0, 4, 7>> >>

\* create_multipolygon_wkt, lines 212-275, on finite coordinates: None unless
\* there are 8 points
create_multipolygon_wkt(points) ==
  IF Len(points) # 8 THEN None
  ELSE Some([kind |-> "MULTIPOLYGON Z",
             faces |-> [f \in 1..6 |->
                          LET face_points == [j \in 1..4 |-> points[Faces[f][j] + 1]] \o <<points[Faces[f][1] + 1]>>
                          IN [j \in 1..5 |-> <<Fixed6Q(face_points[j][1]), Fixed6Q(face_points[j][2]),
                                               Fixed6Q(face_points[j][3])>>]]])

Identity16 == <<1, 0, 0, 0,  0, 1, 0, 0,  0, 0, 1, 0,  0, 0, 0, 1>>

\* lines 81-84: the tile's own transform, else the one handed down, else the
\* identity list
TileTransformMulti(tile, current_transform) ==
  IF ~IsNone(tile.transform) THEN TheValue(tile.transform)
  ELSE IF ~IsNone(current_transform) /\ Len(TheValue(current_transform)) > 0 THEN TheValue(current_transform)
  ELSE Identity16

\* lines 95-104: the corners from box[3], box[7], box[11] (0-based)
PointsMulti(box) ==
  LET cx == box[1]
      cy == box[2]
      cz == box[3]
      hx == box[4]
      hy == box[8]
      hz == box[12]
  IN << <<cx - hx, cy - hy, cz - hz>>, <<cx + hx, cy - hy, cz - hz>>,
        <<cx + hx, cy + hy, cz - hz>>, <<cx - hx, cy + hy, cz - hz>>,
        <<cx - hx, cy - hy, cz + hz>>, <<cx + hx, cy - hy, cz + hz>>,
        <<cx + hx, cy + hy, cz + hz>>, <<cx - hx, cy + hy, cz + hz>> >>

\* lines 86-127: what the tile itself contributes.  "raise": bv._box is None
\* (TypeError), the box is short (IndexError), or the assertion of line 114
\* on duplicate points fails (AssertionError).
OwnMulti(tile, tile_transform, tileset_dir) ==
  LET bv == tile.bounding_volume
  IN IF IsNone(bv) THEN [outcome |-> "none", list |-> <<>>]
     ELSE IF IsNone(TheValue(bv).box) THEN [outcome |-> "raise", list |-> <<>>]
     ELSE
       LET box == TheValue(TheValue(bv).box)
       IN IF Len(box) < 12 THEN [outcome |-> "raise", list |-> <<>>]
          ELSE
            LET points == apply_transform_multi(PointsMulti(box), tile_transform)
                unique_points == Range(points)
            IN IF Len(points) # Cardinality(unique_points) THEN [outcome |-> "raise", list |-> <<>>]
               ELSE [outcome |-> "record",
                     list |-> << [bounding_volume |-> create_multipolygon_wkt(points),
                                  tile_url |-> tile.content_uri, refine |-> tile.refine,
                                  tileset_dir |-> tileset_dir] >>]

\* _recursive_collect, lines 77-132
RECURSIVE recursive_collect_multi(_, _, _)
recursive_collect_multi(ts, n, current_transform) ==
  LET tile == ts[n]
      tile_transform == TileTransformMulti(tile, current_transform)
      own == OwnMulti(tile, tile_transform, TilesetDir)
      kids == [i \in 1..Len(tile.children) |->
                 recursive_collect_multi(ts, tile.children[i], Some(tile_transform))]
  IN IF own.outcome = "raise" THEN Raised
     ELSE IF \E i \in 1..Len(kids) : kids[i].raised THEN Raised
     ELSE Returned(own.list \o Flatten([i \in 1..Len(kids) |-> kids[i].list]))

\* collect_tileset_bounds, line 135, with base_transform = None
collect_tileset_bounds_multi(ts) == recursive_collect_multi(ts, 1, None)

(***************************************************************************)
(* Solid-mode synthesis.  A coordinate handed to the synthesis is a plain  *)
(* number, [scalar |-> v], or an array whose first element is the number,  *)
(* [array |-> <<v>>].                                                      *)
(***************************************************************************)
Scalar(v) == [scalar |-> v]
ArrayOf(v) == [array |-> <<v>>]
IsArray(coord) == "array" \in DOMAIN coord

\* clean_points of src/3DTilesParser.py, lines 144-157: p[0][0], p[1][0],
\* p[2][0]; indexing a plain number raises
clean_points_solid(raw_points) ==
  IF \E i \in 1..Len(raw_points) : \E j \in 1..3 : ~IsArray(raw_points[i][j]) THEN Raised
  ELSE Returned([i \in 1..Len(raw_points) |->
                   <<raw_points[i][1].array[1], raw_points[i][2].array[1], raw_points[i][3].array[1]>>])

\* the face table of create_polyhedron_wkt, lines 168-175 (0-based)
FacesPolyhedron == << <<0, 1, 2, 3>>, <<4, 5, 6, 7>>, <<0, 1, 5, 4>>, <<1, 2, 6, 5>>, <<2, 3, 7, 6>>, <<3, 0, 4, 7>> >>

\* f"{x} {y} {z}" of line 182
PointText(p) == [x |-> p[1], y |-> p[2], z |-> p[3]]

\* create_polyhedron_wkt, lines 159-192: raises when clean_points raises or
\* a face index is out of range (IndexError)
create_polyhedron_wkt(points) ==
  LET cleaned == clean_points_solid(points)
  IN IF cleaned.raised \/ Len(cleaned.list) < 8 THEN Raised
     ELSE Returned(<< [kind |-> "POLYHEDRALSURFACE Z",
                       faces |-> [f \in 1..6 |->
                                    LET polygon_points == [j \in 1..4 |-> PointText(cleaned.list[FacesPolyhedron[f][j] + 1])]
                                    IN polygon_points \o <<polygon_points[1]>>]] >>)

\* clean_points of src/3DTilesParserPoligonZ.py, lines 196-209: float(p[k]),
\* or p[k].item() of an array; [] when a point has fewer than 3 entries
clean_points_multi(raw_points) ==
  IF \E i \in 1..Len(raw_points) : Len(raw_points[i]) < 3 THEN <<>>
  ELSE [i \in 1..Len(raw_points) |->
          [j \in 1..3 |-> IF IsArray(raw_points[i][j]) THEN <<raw_points[i][j].array[1], 1>>
                          ELSE <<raw_points[i][j].scalar, 1>>]]

(***************************************************************************)
(* process_tile of src/parser/parse_tileset_test_update.py, which reads    *)
(* the tiles as JSON objects.                                              *)
(***************************************************************************)
\* box_center_and_corners with the top face built from the x and y axes only
box_center_and_corners_flat_top(box) ==
  LET center == Slice(box, 0, 3)
      x_axis == Slice(box, 3, 6)
      y_axis == Slice(box, 6, 9)
      z_axis == Slice(box, 9, 12)
  IN [center |-> center,
      all_corners |->
        << VSub(VSub(VSub(center, x_axis), y_axis), z_axis), VSub(VSub(VAdd(center, x_axis), y_axis), z_axis),
           VSub(VAdd(VAdd(center, x_axis), y_axis), z_axis), VSub(VAdd(VSub(center, x_axis), y_axis), z_axis),
           VSub(VSub(VSub(center, x_axis), y_axis), z_axis), VSub(VSub(VAdd(center, x_axis), y_axis), z_axis),
           VSub(VAdd(VAdd(center, x_axis), y_axis), z_axis), VSub(VAdd(VSub(center, x_axis), y_axis), z_axis) >>]

\* box_center_and_corners, lines 16-46
box_center_and_corners(box) ==
  LET center == Slice(box, 0, 3)
      x_axis == Slice(box, 3, 6)
      y_axis == Slice(box, 6, 9)
      z_axis == Slice(box, 9, 12)
  IN [center |-> center,
      all_corners |->
        << VSub(VSub(VSub(center, x_axis), y_axis), z_axis), VSub(VSub(VAdd(center, x_axis), y_axis), z_axis),
           VSub(VAdd(VAdd(center, x_axis), y_axis), z_axis), VSub(VAdd(VSub(center, x_axis), y_axis), z_axis),
           VAdd(VSub(VSub(center, x_axis), y_axis), z_axis), VAdd(VSub(VAdd(center, x_axis), y_axis), z_axis),
           VAdd(VAdd(VAdd(center, x_axis), y_axis), z_axis), VAdd(VAdd(VSub(center, x_axis), y_axis), z_axis) >>]

\* apply_transform, lines 49-56
apply_transform_parser(point, transform_matrix) ==
  << transform_matrix[1][1] * point[1] + transform_matrix[1][2] * point[2]
       + transform_matrix[1][3] * point[3] + transform_matrix[1][4],
     transform_matrix[2][1] * point[1] + transform_matrix[2][2] * point[2]
       + transform_matrix[2][3] * point[3] + transform_matrix[2][4],
     transform_matrix[3][1] * point[1] + transform_matrix[3][2] * point[2]
       + transform_matrix[3][3] * point[3] + transform_matrix[3][4] >>

\* calculate_polygon_area, lines 116-129: abs(area) / 2.0 as the pair of the
\* numerator and the denominator 2
calculate_polygon_area(polygon) ==
  IF Len(polygon) < 3 THEN <<0, 2>>
  ELSE LET n == Len(polygon)
           term(i) == polygon[i][1] * polygon[(i % n) + 1][2] - polygon[(i % n) + 1][1] * polygon[i][2]
           RECURSIVE sum(_)
           sum(i) == IF i = 0 THEN 0 ELSE sum(i - 1) + term(i)
       IN <<Abs(sum(n)), 2>>

\* lines 80-105: the result of a leaf with a box
ProcessLeaf(tile, current_transform, level, path) ==
  LET box == TheValue(TheValue(tile.bounding_volume).box)
      cc == box_center_and_corners(box)
      local_corners == cc.all_corners
      world_center == apply_transform_parser(cc.center, current_transform)
      world_corners == [i \in 1..8 |-> apply_transform_parser(local_corners[i], current_transform)]
      z_values == {local_corners[i][3] : i \in 1..8}
      height == SetMax(z_values) - SetMin(z_values)
      bottom_corners == Slice(world_corners, 0, 4)
      polygon_z == bottom_corners \o <<bottom_corners[1]>>
  IN [path |-> path, level |-> level,
      uri |-> IF IsNone(tile.content_uri) THEN Uri("N/A", "") ELSE TheValue(tile.content_uri),
      local_center |-> cc.center, world_center |-> world_center,
      polygon_z |-> polygon_z, area |-> calculate_polygon_area(polygon_z), height |-> height]

\* process_tile, lines 64-113.  Nothing is caught: the ValueError of the
\* reshape of a transform that has not 16 elements (line 75) and of the
\* numpy arithmetic on a box with less than 12 scalars (lines 24-32) leave
\* the function.
RECURSIVE process_tile(_, _, _, _, _)
process_tile(ts, n, parent_transform, level, path) ==
  LET tile == ts[n]
  IN IF ~IsNone(tile.transform) /\ ~CanReshape(TheValue(tile.transform)) THEN Raised
     ELSE
       LET current_transform ==
             IF ~IsNone(tile.transform)
             THEN MatMul(parent_transform, matrix_from_column_major(TheValue(tile.transform)))
             ELSE parent_transform
           processed == tile.children = <<>> /\ HasBox(tile)
       IN IF processed /\ ~BoxProcessable(TheValue(TheValue(tile.bounding_volume).box)) THEN Raised
          ELSE
            LET own == IF processed THEN <<ProcessLeaf(tile, current_transform, level, path)>> ELSE <<>>
                kids == [i \in 1..Len(tile.children) |->
                           process_tile(ts, tile.children[i], current_transform, level + 1,
                                        Append(path, i - 1))]
            IN IF \E i \in 1..Len(kids) : kids[i].raised THEN Raised
               ELSE Returned(own \o Flatten([i \in 1..Len(kids) |-> kids[i].list]))

\* process_tile(tileset["root"]), line 140
process_root(ts) == process_tile(ts, 1, Eye4, 0, <<>>)

(***************************************************************************)
(* State.                                                                  *)
(*   tileset    the tile tree on disk                                      *)
(*   collected  the outcome of the last collect call: None, or             *)
(*              Some([script, raised, list])                               *)
(*   pc, run, records, sent, pending, store, response                      *)
(*              an ingestion run of POST /init-data and the data store     *)
(*   store_at_start   history: the rows committed when the run began       *)
(*   issued     history: the identifiers assigned so far, each with the    *)
(*              content reference it was given for                         *)
(*   open_connections   the number of data-store connections opened by     *)
(*              get_db_connection and not closed yet                       *)
(*   query, result   a collision query and the rows it fetched             *)
(*   traversal  a call of _recursive_collect in progress: the stack of its *)
(*              frames, the matrix objects they refer to, the tiles        *)
(*              entered so far, and the list returned at the end           *)
(***************************************************************************)
VARIABLES tileset, collected, pc, run, records, sent, pending, store, response, store_at_start, issued,
          open_connections, query, result, traversal

vars == <<tileset, collected, pc, run, records, sent, pending, store, response, store_at_start, issued,
          open_connections, query, result, traversal>>
ingestData == <<pc, run, records, sent, pending, store, response, store_at_start, issued>>
ingestVars == <<ingestData, open_connections>>
queryVars == <<query, result>>

IngestIdle ==
  /\ pc = "idle" /\ run = 0 /\ records = <<>> /\ sent = 0 /\ pending = <<>>
  /\ store = {} /\ response = None /\ store_at_start = {} /\ issued = {}
  /\ open_connections = 0
QueryIdle == query = None /\ result = None

(***************************************************************************)
(* The collect functions of the three scripts, each applied to a tileset.  *)
(***************************************************************************)
InitCollect ==
  /\ \E n \in 1..MaxTiles : \E k \in [1..n -> TileKinds] : \E p \in ParentMaps(n) :
       tileset = MakeTileset(n, k, p)
  /\ collected = None
  /\ IngestIdle
  /\ QueryIdle
  /\ traversal = None

CollectCore ==
  /\ collected = None
  /\ collected' = Some([script |-> "core", raised |-> FALSE, list |-> collect_tileset_bounds_core(tileset)])
  /\ UNCHANGED <<tileset, ingestVars, queryVars, traversal>>

CollectSingle ==
  /\ collected = None
  /\ LET r == collect_tileset_bounds_single(tileset)
     IN collected' = Some([script |-> "single", raised |-> r.raised, list |-> r.list])
  /\ UNCHANGED <<tileset, ingestVars, queryVars, traversal>>

CollectMulti ==
  /\ collected = None
  /\ LET r == collect_tileset_bounds_multi(tileset)
     IN collected' = Some([script |-> "multi", raised |-> r.raised, list |-> r.list])
  /\ UNCHANGED <<tileset, ingestVars, queryVars, traversal>>

CollectParser ==
  /\ collected = None
  /\ LET r == process_root(tileset)
     IN collected' = Some([script |-> "parser", raised |-> r.raised, list |-> r.list])
  /\ UNCHANGED <<tileset, ingestVars, queryVars, traversal>>

NextCollect == CollectCore \/ CollectSingle \/ CollectMulti \/ CollectParser

SpecCollect == InitCollect /\ [][NextCollect]_vars

(***************************************************************************)
(* Vocabulary of the statements about a collect call.                      *)
(***************************************************************************)
TheCall == IF collected = None THEN {} ELSE {TheValue(collected)}

IsLeaf(ts, n) == ts[n].children = <<>>
\* the content reference ends with .b3dm, in either case
HasTileContent(ts, n) ==
  /\ ~IsNone(ts[n].content_uri)
  /\ TheValue(ts[n].content_uri).suffix \in {".b3dm", ".B3DM"}
\* the footprint filter: a leaf whose content reference ends with .b3dm
Qualifies(ts, n) == IsLeaf(ts, n) /\ HasTileContent(ts, n)
\* a box descriptor of 12 scalars
WellFormedBox(ts, n) == HasBox(ts[n]) /\ Len(TheValue(TheValue(ts[n].bounding_volume).box)) = 12
\* a well-formed box whose 8 corners are not pairwise distinct (no transform
\* can separate corners that coincide)
DegenerateBox(ts, n) ==
  /\ WellFormedBox(ts, n)
  /\ Cardinality(Range(CornersLocal(TheValue(TheValue(ts[n].bounding_volume).box)))) < 8
MalformedTransform(ts, n) == ~IsNone(ts[n].transform) /\ Len(TheValue(ts[n].transform)) # 16
\* a tile with an unprocessable bounding box, transform or geometry
BadTile(ts, n) ==
  \/ HasBox(ts[n]) /\ ~WellFormedBox(ts, n)
  \/ MalformedTransform(ts, n)
  \/ DegenerateBox(ts, n)

\* the content references of the tiles (option values)
ContentRefs(ts) == {ts[n].content_uri : n \in DOMAIN ts}
\* how many records of a list carry the content reference v
CountRecords(list, v) == Cardinality({i \in 1..Len(list) : list[i].tile_url = v})

\* C2: in footprint mode (both footprint scripts) only leaves whose content
\* reference ends with .b3dm are persisted, and every such leaf with a
\* well-formed box is persisted whatever its ancestors are, because the
\* children of a tile that fails the filter are still traversed.
C2_FootprintFilter ==
  \A c \in TheCall :
    (c.script \in {"core", "single"} /\ ~c.raised) =>
      \A v \in ContentRefs(tileset) :
        /\ CountRecords(c.list, v)
             <= Cardinality({n \in DOMAIN tileset : Qualifies(tileset, n) /\ tileset[n].content_uri = v})
        /\ CountRecords(c.list, v)
             >= Cardinality({n \in DOMAIN tileset :
                               Qualifies(tileset, n) /\ WellFormedBox(tileset, n) /\ tileset[n].content_uri = v})

\* The same statement of the script the API runs (tilesParserSinglePoligonZ).
FootprintFilterCore ==
  \A c \in TheCall :
    c.script = "core" =>
      \A v \in ContentRefs(tileset) :
        /\ CountRecords(c.list, v)
             <= Cardinality({n \in DOMAIN tileset : Qualifies(tileset, n) /\ tileset[n].content_uri = v})
        /\ CountRecords(c.list, v)
             >= Cardinality({n \in DOMAIN tileset :
                               Qualifies(tileset, n) /\ WellFormedBox(tileset, n) /\ tileset[n].content_uri = v})

\* what a script persists of the tiles that are not bad
Persistable(script, ts, n) ==
  IF script = "core" THEN Qualifies(ts, n) /\ WellFormedBox(ts, n) ELSE HasBox(ts[n])

\* C6: a single bad tile never aborts the run: when exactly one tile of the
\* tree has an unprocessable box, transform or geometry, the traversal
\* returns and every other tile the script persists is collected.
C6_BadTileIsTileScoped ==
  \A c \in TheCall :
    (c.script \in {"core", "multi"} /\ Cardinality({n \in DOMAIN tileset : BadTile(tileset, n)}) = 1) =>
      /\ ~c.raised
      /\ \A v \in ContentRefs(tileset) :
           CountRecords(c.list, v)
             >= Cardinality({n \in DOMAIN tileset :
                               ~BadTile(tileset, n) /\ Persistable(c.script, tileset, n)
                               /\ tileset[n].content_uri = v})

\* The same statement of the script the API runs.
BadTileIsTileScopedCore ==
  \A c \in TheCall :
    (c.script = "core" /\ Cardinality({n \in DOMAIN tileset : BadTile(tileset, n)}) = 1) =>
      /\ ~c.raised
      /\ \A v \in ContentRefs(tileset) :
           CountRecords(c.list, v)
             >= Cardinality({n \in DOMAIN tileset :
                               ~BadTile(tileset, n) /\ Persistable(c.script, tileset, n)
                               /\ tileset[n].content_uri = v})

\* C10: a tile whose 8 corners are not pairwise distinct is skipped: on a
\* tileset whose boxes all have 12 scalars the traversal returns (nothing
\* escapes it) and no record is produced for a tile with coinciding corners.
C10_DegenerateSkipped ==
  \A c \in TheCall :
    (c.script \in {"core", "multi"}
       /\ \A n \in DOMAIN tileset : IsNone(tileset[n].bounding_volume) \/ WellFormedBox(tileset, n)) =>
      /\ ~c.raised
      /\ \A v \in ContentRefs(tileset) :
           CountRecords(c.list, v)
             <= Cardinality({n \in DOMAIN tileset : ~DegenerateBox(tileset, n) /\ tileset[n].content_uri = v})

(***************************************************************************)
(* The world transform of a tile as a product along its path from the      *)
(* root, for a given reading of the local transform.                       *)
(***************************************************************************)
ParentOf(ts, n) == CHOOSE m \in DOMAIN ts : n \in Range(ts[m].children)

\* the repair rule of the specification: 16 elements are the matrix, at
\* least 3 are a translation embedded in the identity, fewer are dropped
RepairedLocal(t) ==
  IF IsNone(t) THEN Eye4
  ELSE IF Len(TheValue(t)) = 16 THEN matrix_from_column_major(TheValue(t))
  ELSE IF Len(TheValue(t)) >= 3
       THEN matrix_from_column_major(Translate(TheValue(t)[1], TheValue(t)[2], TheValue(t)[3]))
  ELSE Eye4

\* the rule that drops every local transform that has not 16 elements
DroppedLocal(t) ==
  IF IsNone(t) \/ Len(TheValue(t)) # 16 THEN Eye4 ELSE matrix_from_column_major(TheValue(t))

RECURSIVE RepairedWorld(_, _)
RepairedWorld(ts, n) ==
  IF n = 1 THEN RepairedLocal(ts[1].transform)
  ELSE MatMul(RepairedWorld(ts, ParentOf(ts, n)), RepairedLocal(ts[n].transform))

RECURSIVE DroppedWorld(_, _)
DroppedWorld(ts, n) ==
  IF n = 1 THEN DroppedLocal(ts[1].transform)
  ELSE MatMul(DroppedWorld(ts, ParentOf(ts, n)), DroppedLocal(ts[n].transform))

\* the footprint ring of a tile's box under a world transform
RingUnder(ts, n, world) ==
  LET corners == CornersLocal(TheValue(TheValue(ts[n].bounding_volume).box))
  IN [i \in 1..5 |-> FormatPoint(apply_transform_core(corners[IF i = 5 THEN 1 ELSE i], world))]

\* C9: a local transform that has not 16 elements is repaired: the footprint
\* of every persisted tile is its bottom face under the product, along the
\* path from the root, of the local transforms, where one of at least 3
\* elements counts as the translation by its first three and a shorter one
\* as absent.
C9_MalformedTransformRepaired ==
  \A c \in TheCall :
    c.script = "core" =>
      \A n \in DOMAIN tileset :
        (Qualifies(tileset, n) /\ WellFormedBox(tileset, n)) =>
          \E i \in 1..Len(c.list) :
            /\ c.list[i].tile_url = tileset[n].content_uri
            /\ c.list[i].bounding_volume.coords = RingUnder(tileset, n, RepairedWorld(tileset, n))

\* What the footprint script does instead: every malformed local transform
\* is dropped, whatever its length.
MalformedTransformDroppedCore ==
  \A c \in TheCall :
    c.script = "core" =>
      \A n \in DOMAIN tileset :
        (Qualifies(tileset, n) /\ WellFormedBox(tileset, n)) =>
          \E i \in 1..Len(c.list) :
            /\ c.list[i].tile_url = tileset[n].content_uri
            /\ c.list[i].bounding_volume.coords = RingUnder(tileset, n, DroppedWorld(tileset, n))

(***************************************************************************)
(* The composed transforms.                                                *)
(***************************************************************************)
\* the tiles on the path from the root to tile n, the root first
RECURSIVE PathTo(_, _)
PathTo(ts, n) == IF n = 1 THEN <<1>> ELSE Append(PathTo(ts, ParentOf(ts, n)), n)

\* M_local of a tile that carries a 16-element transform, else the identity
LocalMatrix(t) ==
  IF ~IsNone(t) /\ Len(TheValue(t)) = 16 THEN matrix_from_column_major(TheValue(t)) ELSE Eye4

\* the ordered product of the local transforms of the tiles path[i..]
RECURSIVE ProductFrom(_, _, _)
ProductFrom(ts, path, i) ==
  IF i > Len(path) THEN Eye4
  ELSE MatMul(LocalMatrix(ts[path[i]].transform), ProductFrom(ts, path, i + 1))
PathProduct(ts, n) == ProductFrom(ts, PathTo(ts, n), 1)

\* M applied to a point (x, y, z, 1), first three components
Project(M, q) ==
  << M[1][1] * q[1] + M[1][2] * q[2] + M[1][3] * q[3] + M[1][4],
     M[2][1] * q[1] + M[2][2] * q[2] + M[2][3] * q[3] + M[2][4],
     M[3][1] * q[1] + M[3][2] * q[2] + M[3][3] * q[3] + M[3][4] >>

BoxOf(ts, n) == TheValue(TheValue(ts[n].bounding_volume).box)
\* the corner of a 12-scalar box with the signs sx, sy, sz of the half-axes
Corner(box, sx, sy, sz) ==
  [k \in 1..3 |-> box[k] + sx * box[3 + k] + sy * box[6 + k] + sz * box[9 + k]]
\* the 8 corners in the fixed order: bottom face, then top face
OrderedCorners(box) ==
  << Corner(box, -1, -1, -1), Corner(box, 1, -1, -1), Corner(box, 1, 1, -1), Corner(box, -1, 1, -1),
     Corner(box, -1, -1, 1), Corner(box, 1, -1, 1), Corner(box, 1, 1, 1), Corner(box, -1, 1, 1) >>

\* the path of child indexes (0-based) that process_tile writes for a tile
ChildIndexPath(ts, n) ==
  LET nodes == PathTo(ts, n)
  IN [i \in 1..(Len(nodes) - 1) |->
        (CHOOSE k \in 1..Len(ts[nodes[i]].children) : ts[nodes[i]].children[k] = nodes[i + 1]) - 1]

\* the bottom ring of tile n under the matrix M, as numbers
RawRing(ts, n, M) ==
  LET corners == OrderedCorners(BoxOf(ts, n))
  IN [i \in 1..5 |-> Project(M, corners[IF i = 5 THEN 1 ELSE i])]
FormatRing(ring) == [i \in 1..Len(ring) |-> FormatPoint(ring[i])]

\* C12: the world transform of a node is M_p . M_local when the node carries
\* a 16-element local transform and M_p otherwise, with the identity above
\* the root: every leaf is projected by the ordered product of the local
\* transforms on the path from the root to it.
C12_WorldTransformIsPathProduct ==
  \A c \in TheCall :
    /\ c.script = "core" =>
         \A n \in DOMAIN tileset :
           (Qualifies(tileset, n) /\ WellFormedBox(tileset, n)) =>
             \E i \in 1..Len(c.list) :
               /\ c.list[i].tile_url = tileset[n].content_uri
               /\ c.list[i].bounding_volume.coords = FormatRing(RawRing(tileset, n, PathProduct(tileset, n)))
    /\ (c.script = "parser" /\ ~c.raised) =>
         \A n \in DOMAIN tileset :
           (IsLeaf(tileset, n) /\ WellFormedBox(tileset, n)) =>
             \E i \in 1..Len(c.list) :
               /\ c.list[i].path = ChildIndexPath(tileset, n)
               /\ c.list[i].polygon_z = RawRing(tileset, n, PathProduct(tileset, n))
               /\ c.list[i].world_center
                    = Project(PathProduct(tileset, n), Slice(BoxOf(tileset, n), 0, 3))

\* a leaf with a rotation under a root with a translation: the two factors
\* do not commute
C12_RotationUnderTranslation ==
  /\ \E c \in TheCall : c.script = "core" /\ Len(c.list) >= 1
  /\ Len(tileset) >= 2
  /\ tileset[1].transform = Some(Translate(10, 0, 0))
  /\ 2 \in Range(tileset[1].children)
  /\ tileset[2].transform = Some(RotZ90)
  /\ Qualifies(tileset, 2) /\ WellFormedBox(tileset, 2)
  /\ PathProduct(tileset, 2) # MatMul(LocalMatrix(tileset[2].transform), LocalMatrix(tileset[1].transform))

\* the ring of a record is the projected bottom face of tile n: corners
\* 0, 1, 2, 3 and corner 0 again, the first four pairwise distinct
BottomRingOf(rec, n) ==
  LET coords == rec.bounding_volume.coords
  IN /\ rec.tile_url = tileset[n].content_uri
     /\ WellFormedBox(tileset, n)
     /\ Len(coords) = 5
     /\ coords = FormatRing(RawRing(tileset, n, PathProduct(tileset, n)))
     /\ \A i, j \in 1..4 : i # j => coords[i] # coords[j]

\* C17: the ring of every persisted footprint-mode record has exactly 5
\* coordinates: the projected corners 0, 1, 2, 3 of the bottom face in the
\* fixed order, then corner 0 again, the first four pairwise distinct.
C17_FootprintRing ==
  \A c \in TheCall :
    c.script \in {"core", "single"} =>
      \A i \in 1..Len(c.list) : \E n \in DOMAIN tileset : BottomRingOf(c.list[i], n)

\* the same for the records of core/tilesParserSinglePoligonZ.py
FootprintRingCore ==
  \A c \in TheCall :
    c.script = "core" =>
      \A i \in 1..Len(c.list) : \E n \in DOMAIN tileset : BottomRingOf(c.list[i], n)

(***************************************************************************)
(* The corner extraction of the footprint script (lines 111-131) and of    *)
(* box_center_and_corners, applied to the box of a single tile.            *)
(***************************************************************************)
AxisVectors ==
  { <<1, 0, 0>>, <<0, 1, 0>>, <<0, 0, 1>>, <<1, 1, 0>>, <<-1, 1, 0>>, <<0, 0, 5>>, <<2, 0, 0>>, <<0, 0, 0>> }
BoxCenters == { <<0, 0, 0>>, <<1, 1, 10>> }
ExtractTransforms == { None, Some(Translate(0, 0, 0)), Some(Translate(10, 0, 0)), Some(RotZ90) }

InitCorners ==
  /\ \E c \in BoxCenters, x \in AxisVectors, y \in AxisVectors, z \in AxisVectors, t \in ExtractTransforms :
       tileset = MakeTileset(1, <<TileKind(t, BoxVolume(c \o x \o y \o z), Some(Uri("a", ".b3dm")))>>, <<>>)
  /\ collected = None
  /\ IngestIdle
  /\ QueryIdle
  /\ traversal = None

\* lines 111-131 of the footprint script for the root tile: the local
\* corners and their projection by the tile's world transform
ExtractCore ==
  /\ collected = None
  /\ LET box == TheValue(TheValue(tileset[1].bounding_volume).box)
         current_transform == CurrentTransform(tileset[1], Eye4)
         corners_local == CornersLocal(box)
     IN collected' = Some([script |-> "core corners", raised |-> FALSE,
                           local |-> corners_local,
                           list |-> [i \in 1..8 |-> apply_transform_core(corners_local[i], current_transform)]])
  /\ UNCHANGED <<tileset, ingestVars, queryVars, traversal>>

\* box_center_and_corners called with the box of the root tile
ExtractParser ==
  /\ collected = None
  /\ LET cc == box_center_and_corners(TheValue(TheValue(tileset[1].bounding_volume).box))
     IN collected' = Some([script |-> "parser corners", raised |-> FALSE,
                           local |-> cc.all_corners, list |-> <<cc.center>>])
  /\ UNCHANGED <<tileset, ingestVars, queryVars, traversal>>

NextCorners == ExtractCore \/ ExtractParser

SpecCorners == InitCorners /\ [][NextCorners]_vars

UnitBox == <<0, 0, 0,  1, 0, 0,  0, 1, 0,  0, 0, 1>>
UnitCorners ==
  << <<-1, -1, -1>>, <<1, -1, -1>>, <<1, 1, -1>>, <<-1, 1, -1>>,
     <<-1, -1, 1>>, <<1, -1, 1>>, <<1, 1, 1>>, <<-1, 1, 1>> >>

\* C13: for every 12-scalar box the extractor returns the 8 corners in the
\* order c-x-y-z, c+x-y-z, c+x+y-z, c-x+y-z, c-x-y+z, c+x-y+z, c+x+y+z,
\* c-x+y+z, and the world corners are their projections in the same order;
\* the unit box at the origin without local transform under the identity
\* gives the corners (+-1, +-1, +-1) in that order.
C13_CornersInFixedOrder ==
  \A c \in TheCall :
    LET box == BoxOf(tileset, 1)
    IN /\ c.local = OrderedCorners(box)
       /\ c.script = "core corners" =>
            /\ c.list = [i \in 1..8 |-> Project(LocalMatrix(tileset[1].transform), OrderedCorners(box)[i])]
            /\ (box = UnitBox /\ IsNone(tileset[1].transform)) => c.list = UnitCorners
       /\ c.script = "parser corners" =>
            /\ c.list = <<Slice(box, 0, 3)>>
            /\ box = UnitBox => c.local = UnitCorners

\* the unit box at the origin, no local transform
C13_UnitBoxExtracted ==
  /\ \E c \in TheCall : c.script = "core corners" /\ c.list = UnitCorners
  /\ BoxOf(tileset, 1) = UnitBox /\ IsNone(tileset[1].transform)

\* the determinant of the three half-axes of a box
AxesDeterminant(box) ==
  box[4] * (box[8] * box[12] - box[9] * box[11])
    - box[5] * (box[7] * box[12] - box[9] * box[10])
    + box[6] * (box[7] * box[11] - box[8] * box[10])

\* C14: for a valid box descriptor (12 scalars, the three half-axes linearly
\* independent) the 8 corners the extractor returns are pairwise distinct.
C14_CornersPairwiseDistinct ==
  \A c \in TheCall :
    AxesDeterminant(BoxOf(tileset, 1)) # 0 =>
      /\ Len(c.local) = 8
      /\ \A i, j \in 1..8 : i # j => c.local[i] # c.local[j]

\* a box with half-axes that are not orthogonal to the coordinate axes
C14_ObliqueBoxExtracted ==
  /\ \E c \in TheCall : c.script = "parser corners" /\ Cardinality(Range(c.local)) = 8
  /\ Slice(BoxOf(tileset, 1), 3, 9) = <<1, 1, 0, -1, 1, 0>>
  /\ AxesDeterminant(BoxOf(tileset, 1)) # 0

(***************************************************************************)
(* The collect functions on tilesets in which tiles carry the 16-element   *)
(* identity as local transform, below translating and rotating parents.    *)
(***************************************************************************)
ObliqueBox == <<1, 1, 10,  1, 1, 0,  -1, 1, 0,  0, 0, 5>>
IdentityLocalKinds ==
  { TileKind(Some(Translate(10, 0, 0)), BoxVolume(HighBox), None),
    TileKind(Some(RotZ90), BoxVolume(HighBox), Some(Uri("b", ".b3dm"))),
    TileKind(Some(Identity16), BoxVolume(BandBox), Some(Uri("i", ".b3dm"))),
    TileKind(Some(Identity16), BoxVolume(ObliqueBox), Some(Uri("j", ".b3dm"))),
    TileKind(None, BoxVolume(BandBox), Some(Uri("a", ".b3dm"))) }

InitIdentityLocal ==
  /\ \E n \in 1..MaxTiles : \E k \in [1..n -> IdentityLocalKinds] : \E p \in ParentMaps(n) :
       tileset = MakeTileset(n, k, p)
  /\ collected = None
  /\ IngestIdle
  /\ QueryIdle
  /\ traversal = None

NextIdentityLocal == CollectCore \/ CollectParser

SpecIdentityLocal == InitIdentityLocal /\ [][NextIdentityLocal]_vars

\* the tileset with every identity local transform taken away
WithoutIdentity(ts) ==
  [n \in DOMAIN ts |-> IF ts[n].transform = Some(Identity16) THEN [ts[n] EXCEPT !.transform = None] ELSE ts[n]]

\* C15: composing with the identity is a no-op: a node whose local
\* transform is the 16-element identity yields, under every parent
\* transform, the same projected corners for itself and for the tiles below
\* it as the same node without local transform.
C15_IdentityLocalIsNoOp ==
  \A c \in TheCall :
    /\ c.script = "core" => c.list = collect_tileset_bounds_core(WithoutIdentity(tileset))
    /\ c.script = "parser" => [raised |-> c.raised, list |-> c.list] = process_root(WithoutIdentity(tileset))

\* an identity node between a transforming parent and a leaf
C15_IdentityBelowTranslation ==
  /\ \E c \in TheCall : c.script = "core" /\ Len(c.list) >= 1
  /\ \E n \in DOMAIN tileset :
       /\ tileset[n].transform = Some(Identity16)
       /\ tileset[n].children # <<>>
       /\ n # 1
       /\ tileset[ParentOf(tileset, n)].transform = Some(Translate(10, 0, 0))

(***************************************************************************)
(* The two solid-mode synthesis functions applied to the 8 corners of the  *)
(* box of a single tile, built as collect_building_bounds builds them.     *)
(***************************************************************************)
InitFaces ==
  /\ \E c \in BoxCenters, x \in AxisVectors, y \in AxisVectors, z \in AxisVectors :
       tileset = MakeTileset(1, <<TileKind(None, BoxVolume(c \o x \o y \o z), Some(Uri("a", ".b3dm")))>>, <<>>)
  /\ collected = None
  /\ IngestIdle
  /\ QueryIdle
  /\ traversal = None

\* the corners of lines 80-89 with their coordinates in the given form
CornerInput(form) ==
  LET points == PointsMulti(TheValue(TheValue(tileset[1].bounding_volume).box))
  IN [i \in 1..8 |-> [j \in 1..3 |-> IF form = "array" THEN ArrayOf(points[i][j]) ELSE Scalar(points[i][j])]]

\* create_polyhedron_wkt(points) of src/3DTilesParser.py
SynthPolyhedron ==
  /\ collected = None
  /\ \E form \in {"scalar", "array"} :
       LET r == create_polyhedron_wkt(CornerInput(form))
       IN collected' = Some([script |-> "polyhedron", form |-> form, raised |-> r.raised, list |-> r.list])
  /\ UNCHANGED <<tileset, ingestVars, queryVars, traversal>>

\* create_multipolygon_wkt(points) of src/3DTilesParserPoligonZ.py
SynthMultipolygon ==
  /\ collected = None
  /\ \E form \in {"scalar", "array"} :
       LET r == create_multipolygon_wkt(clean_points_multi(CornerInput(form)))
       IN collected' = Some([script |-> "multipolygon", form |-> form, raised |-> FALSE,
                             list |-> IF IsNone(r) THEN <<>> ELSE <<TheValue(r)>>])
  /\ UNCHANGED <<tileset, ingestVars, queryVars, traversal>>

NextFaces == SynthPolyhedron \/ SynthMultipolygon

SpecFaces == InitFaces /\ [][NextFaces]_vars

\* the face table of the specification, 0-based indices into the corners
FaceTable == << <<0, 1, 2, 3>>, <<4, 5, 6, 7>>, <<0, 1, 5, 4>>, <<1, 2, 6, 5>>, <<2, 3, 7, 6>>, <<3, 0, 4, 7>> >>

\* the text of a corner in the output of the given function
CornerText(script, p) ==
  IF script = "polyhedron" THEN PointText(p)
  ELSE <<Fixed6Q(<<p[1], 1>>), Fixed6Q(<<p[2], 1>>), Fixed6Q(<<p[3], 1>>)>>

\* the output has 6 faces over the table, each ring of 5 entries and closed
SixClosedFaces(c) ==
  LET corners == PointsMulti(BoxOf(tileset, 1))
  IN /\ ~c.raised
     /\ Len(c.list) = 1
     /\ Len(c.list[1].faces) = 6
     /\ \A f \in 1..6 :
          LET ring == c.list[1].faces[f]
          IN /\ Len(ring) = 5
             /\ \A j \in 1..4 : ring[j] = CornerText(c.script, corners[FaceTable[f][j] + 1])
             /\ ring[5] = ring[1]

\* C16: for every 8-corner input solid-mode synthesis emits exactly 6 faces
\* over the table [0,1,2,3], [4,5,6,7], [0,1,5,4], [1,2,6,5], [2,3,7,6],
\* [3,0,4,7], in that order, each ring of 5 entries with the first and the
\* last entry identical.
C16_SixClosedFaces ==
  \A c \in TheCall : SixClosedFaces(c)

\* the same for the inputs whose coordinates the function can read:
\* create_multipolygon_wkt on both forms, create_polyhedron_wkt on arrays
SixClosedFacesWhenRead ==
  \A c \in TheCall : (c.script = "multipolygon" \/ c.form = "array") => SixClosedFaces(c)

(***************************************************************************)
(* The collect functions on tilesets with boxes whose half-axes are not    *)
(* aligned with the local z axis, and with a transform that turns z.       *)
(***************************************************************************)
RotX90 == <<1, 0, 0, 0,  0, 0, 1, 0,  0, -1, 0, 0,  0, 0, 0, 1>>
TiltedBox == <<0, 0, 5,  1, 0, 1,  0, 1, 0,  0, 0, 5>>
LeaningBox == <<0, 0, 5,  1, 0, 0,  0, 1, 0,  3, 0, 4>>
HeightKinds ==
  { TileKind(Some(Translate(10, 0, 0)), BoxVolume(HighBox), None),
    TileKind(Some(RotX90), BoxVolume(HighBox), Some(Uri("h", ".b3dm"))),
    TileKind(None, BoxVolume(TiltedBox), Some(Uri("t", ".b3dm"))),
    TileKind(None, BoxVolume(LeaningBox), Some(Uri("l", ".b3dm"))),
    TileKind(None, BoxVolume(BandBox), Some(Uri("a", ".b3dm"))) }

InitHeight ==
  /\ \E n \in 1..MaxTiles : \E k \in [1..n -> HeightKinds] : \E p \in ParentMaps(n) :
       tileset = MakeTileset(n, k, p)
  /\ collected = None
  /\ IngestIdle
  /\ QueryIdle
  /\ traversal = None

NextHeight == CollectCore \/ CollectParser

SpecHeight == InitHeight /\ [][NextHeight]_vars

\* the height of the record c.list[i], and the tiles it may stem from
HeightOf(c, i) == IF c.script = "core" THEN TheValue(c.list[i].height) ELSE c.list[i].height
StemsFrom(c, i, n) ==
  /\ IsLeaf(tileset, n)
  /\ WellFormedBox(tileset, n)
  /\ IF c.script = "core" THEN c.list[i].tile_url = tileset[n].content_uri
     ELSE c.list[i].path = ChildIndexPath(tileset, n)

\* max - min of the z of the 8 corners c +- x +- y +- z, in closed form
LocalZSpan(box) == 2 * (Abs(box[6]) + Abs(box[9]) + Abs(box[12]))
\* the squared magnitude of the z half-axis
ZHalfAxisSquared(box) == box[10] * box[10] + box[11] * box[11] + box[12] * box[12]
\* the x and y half-axes are horizontal and the z half-axis is vertical
ZAligned(box) == box[6] = 0 /\ box[9] = 0 /\ box[10] = 0 /\ box[11] = 0

SolidMatrix(transform_matrix) ==
  IF Len(transform_matrix) >= 16 THEN transform_matrix
  ELSE IF Len(transform_matrix) >= 3
       THEN [i \in 1..16 |-> IF i \in 13..15 THEN transform_matrix[i - 12] ELSE Identity16[i]]
       ELSE Identity16

\* x_new / w_new of line 140: no replacement of a vanishing weight.  With
\* Python floats a zero divisor raises ZeroDivisionError; with numpy float64
\* operands (the entries of bv._box are numpy scalars) the quotient is inf,
\* -inf or nan.
SolidQuotient(num, w, form) ==
  IF w # 0 THEN Quotient(num, w)
  ELSE IF form = "float" THEN [text |-> "ZeroDivisionError"]
  ELSE IF num = 0 THEN [text |-> "nan"]
  ELSE IF num > 0 THEN [text |-> "inf"] ELSE [text |-> "-inf"]

\* multiply, lines 135-140 (matrix is the flat list, 0-based in the source)
multiply_solid(matrix, x, y, z, form) ==
  LET x_new == matrix[1] * x + matrix[5] * y + matrix[9] * z + matrix[13]
      y_new == matrix[2] * x + matrix[6] * y + matrix[10] * z + matrix[14]
      z_new == matrix[3] * x + matrix[7] * y + matrix[11] * z + matrix[15]
      w_new == matrix[4] * x + matrix[8] * y + matrix[12] * z + matrix[16]
  IN IF w_new = 0 /\ form = "float" THEN [raised |-> TRUE, point |-> <<>>]
     ELSE [raised |-> FALSE,
           point |-> <<SolidQuotient(x_new, w_new, form), SolidQuotient(y_new, w_new, form),
                       SolidQuotient(z_new, w_new, form)>>]

\* apply_transform, lines 113-142: the list of the projected points, or the
\* exception of the first point that raises
apply_transform_solid(points, transform_matrix, form) ==
  LET matrix == SolidMatrix(transform_matrix)
      each == [i \in 1..Len(points) |-> multiply_solid(matrix, points[i][1], points[i][2], points[i][3], form)]
  IN IF \E i \in 1..Len(each) : each[i].raised THEN Raised
     ELSE Returned([i \in 1..Len(each) |-> each[i].point])

\* uniform scaling by 1/2 through the weight; a weight of -1; a projective
\* matrix whose weight is the z of the point
HalfScale == <<1, 0, 0, 0,  0, 1, 0, 0,  0, 0, 1, 0,  0, 0, 0, 2>>
NegativeWeight == <<1, 0, 0, 0,  0, 1, 0, 0,  0, 0, 1, 0,  0, 0, 0, -1>>
Perspective == <<1, 0, 0, 0,  0, 1, 0, 0,  0, 0, 1, 1,  0, 0, 0, 0>>
ProjectTransforms == {Identity16, Translate(10, 0, 0), RotZ90, HalfScale, NegativeWeight, Perspective}
ProjectPoints ==
  { <<0, 0, 0>>, <<1, 2, 3>>, <<2, 0, -1>>, <<-1, 1, 0>>, <<3, 3, 2>>, <<0, -2, 4>>, <<1, 0, 0>>, <<0, 1, -1>> }

InitProject ==
  /\ \E t \in ProjectTransforms :
       tileset = MakeTileset(1, <<TileKind(Some(t), BoxVolume(BandBox), Some(Uri("a", ".b3dm")))>>, <<>>)
  /\ collected = None
  /\ IngestIdle
  /\ QueryIdle
  /\ traversal = None

\* _apply_transform(point, current_transform) of the footprint script, with
\* the current_transform of the root tile (lines 91-98)
ProjectCore ==
  /\ collected = None
  /\ \E p \in ProjectPoints :
       collected' = Some([script |-> "core point", input |-> p, raised |-> FALSE,
                          list |-> <<apply_transform_core(p, CurrentTransform(tileset[1], Eye4))>>])
  /\ UNCHANGED <<tileset, ingestVars, queryVars, traversal>>

\* apply_transform([point], tile.transform) of src/3DTilesParserPoligonZ.py
ProjectMulti ==
  /\ collected = None
  /\ \E p \in ProjectPoints :
       collected' = Some([script |-> "multi point", input |-> p, raised |-> FALSE,
                          list |-> apply_transform_multi(<<p>>, TheValue(tileset[1].transform))])
  /\ UNCHANGED <<tileset, ingestVars, queryVars, traversal>>

\* apply_transform([point], tile.transform) of src/3DTilesParser.py
ProjectSolid ==
  /\ collected = None
  /\ \E p \in ProjectPoints, form \in {"float", "float64"} :
       LET r == apply_transform_solid(<<p>>, TheValue(tileset[1].transform), form)
       IN collected' = Some([script |-> "solid point", input |-> p, raised |-> r.raised, list |-> r.list])
  /\ UNCHANGED <<tileset, ingestVars, queryVars, traversal>>

NextProject == ProjectCore \/ ProjectMulti \/ ProjectSolid

SpecProject == InitProject /\ [][NextProject]_vars

\* the four components of M (p, 1) for the column-major list M as given
HomogeneousProduct(M, p) ==
  [r \in 1..4 |-> M[r] * p[1] + M[4 + r] * p[2] + M[8 + r] * p[3] + M[12 + r]]
\* x, y, z over the weight, the divisor 1e-10 in place of a weight of
\* magnitude below 1e-10
DividedByWeight(h) == <<Quotient(h[1], h[4]), Quotient(h[2], h[4]), Quotient(h[3], h[4])>>
\* the point a call returned, its coordinates as quotients
ReturnedPoint(c) ==
  IF c.script = "core point" THEN [i \in 1..3 |-> Quotient(c.list[1][i], 1)] ELSE c.list[1]

\* C23: applying a transform to a point computes the 4-component
\* homogeneous product and divides x, y, z by the resulting weight w, with
\* the divisor 1e-10 whenever |w| is below 1e-10, and never raises.
C23_PerspectiveDivideWithEpsilon ==
  \A c \in TheCall :
    c.script \in {"core point", "multi point", "solid point"} =>
      /\ ~c.raised
      /\ ReturnedPoint(c)
           = DividedByWeight(HomogeneousProduct(TheValue(tileset[1].transform), c.input))

\* C27: for every 16-element column-major matrix M, a zero on the diagonal
\* included, and every point p, apply_transform of the multipolygon script
\* returns the homogeneous product of M with (p, 1) divided by its weight,
\* computed from the 16 entries of M as they are given.
C27_MatrixEntriesUsedAsGiven ==
  \A c \in TheCall :
    c.script = "multi point" =>
      c.list[1] = DividedByWeight(HomogeneousProduct(TheValue(tileset[1].transform), c.input))

(***************************************************************************)
(* _recursive_collect of core/tilesParserSinglePoligonZ.py call by call.   *)
(* The matrices are objects: a frame holds references into the sequence    *)
(* heap, and a matrix is changed only where the code changes the object.   *)
(* A frame is [tile, parent_transform, current_transform, child,           *)
(* bounds_list]; child is the position in tile.children of the call that   *)
(* is made next.                                                           *)
(***************************************************************************)
TraverseKinds ==
  { TileKind(Some(Translate(10, 0, 0)), BoxVolume(HighBox), None),
    TileKind(Some(RotZ90), BoxVolume(HighBox), Some(Uri("b", ".b3dm"))),
    TileKind(Some(Malformed7), BoxVolume(BandBox), Some(Uri("f", ".b3dm"))),
    TileKind(None, BoxVolume(BandBox), Some(Uri("a", ".b3dm"))) }

InitTraverse ==
  /\ \E n \in 1..MaxTiles : \E k \in [1..n -> TraverseKinds] : \E p \in ParentMaps(n) :
       tileset = MakeTileset(n, k, p)
  /\ collected = None
  /\ IngestIdle
  /\ QueryIdle
  /\ traversal = None

\* lines 91-98 with the product written into the parent's matrix object
\* instead of a copy of it
EnterTransformInPlace(heap, parent_ref, tile) ==
  IF ~IsNone(tile.transform) /\ CanReshape(TheValue(tile.transform))
  THEN [heap |-> [heap EXCEPT ![parent_ref] = MatMul(@, matrix_from_column_major(TheValue(tile.transform)))],
        ref |-> parent_ref]
  ELSE [heap |-> heap, ref |-> parent_ref]

\* lines 91-98: current_transform is a copy of the parent's matrix; with a
\* transform that reshapes, it is rebound to the product, a new object
EnterTransform(heap, parent_ref, tile) ==
  LET copied == Append(heap, heap[parent_ref])
  IN IF ~IsNone(tile.transform) /\ CanReshape(TheValue(tile.transform))
     THEN [heap |-> Append(copied, MatMul(copied[Len(copied)], matrix_from_column_major(TheValue(tile.transform)))),
           ref |-> Len(copied) + 1]
     ELSE [heap |-> copied, ref |-> Len(copied)]

\* lines 81-157: the call _recursive_collect(tile n, parent_transform) up to
\* the loop over the children
EnterTile(t, n, parent_ref) ==
  LET tile == tileset[n]
      e == EnterTransform(t.heap, parent_ref, tile)
      own == IF tile.children = <<>> /\ HasBox(tile) THEN LeafBounds(tile, e.heap[e.ref], TilesetDir) ELSE <<>>
      frame == [tile |-> n, parent_transform |-> parent_ref, current_transform |-> e.ref,
                child |-> 1, bounds_list |-> own]
  IN [t EXCEPT !.stack = Append(@, frame), !.heap = e.heap, !.entered = Append(@, n)]

\* collect_tileset_bounds, line 168: the call on the root tile, whose
\* parent_transform None becomes np.eye(4) (lines 82-83)
BeginTraversal ==
  /\ traversal = None
  /\ traversal' = Some(EnterTile([stack |-> <<>>, heap |-> <<Eye4>>, entered |-> <<>>, returned |-> None], 1, 1))
  /\ UNCHANGED <<tileset, collected, ingestVars, queryVars>>

\* lines 159-162: the call on the next child, with current_transform
CallChild ==
  /\ ~IsNone(traversal)
  /\ LET t == TheValue(traversal)
     IN /\ t.stack # <<>>
        /\ LET top == t.stack[Len(t.stack)]
           IN /\ top.child <= Len(tileset[top.tile].children)
              /\ traversal' = Some(EnterTile(t, tileset[top.tile].children[top.child], top.current_transform))
  /\ UNCHANGED <<tileset, collected, ingestVars, queryVars>>

\* ReturnFromCall with the caller stepping over the child that follows
ReturnFromCallSkippingSibling ==
  /\ ~IsNone(traversal)
  /\ LET t == TheValue(traversal)
     IN /\ t.stack # <<>>
        /\ LET depth == Len(t.stack)
               top == t.stack[depth]
           IN /\ top.child > Len(tileset[top.tile].children)
              /\ traversal' =
                   Some(IF depth = 1
                        THEN [t EXCEPT !.stack = <<>>, !.returned = Some(top.bounds_list)]
                        ELSE [t EXCEPT !.stack =
                                [i \in 1..(depth - 1) |->
                                   IF i = depth - 1
                                   THEN [t.stack[i] EXCEPT !.bounds_list = @ \o top.bounds_list, !.child = @ + 2]
                                   ELSE t.stack[i]]])
  /\ UNCHANGED <<tileset, collected, ingestVars, queryVars>>

\* line 166: the call returns its bounds_list, which the caller appends to
\* its own (line 162) before it goes on to the next child
ReturnFromCall ==
  /\ ~IsNone(traversal)
  /\ LET t == TheValue(traversal)
     IN /\ t.stack # <<>>
        /\ LET depth == Len(t.stack)
               top == t.stack[depth]
           IN /\ top.child > Len(tileset[top.tile].children)
              /\ traversal' =
                   Some(IF depth = 1
                        THEN [t EXCEPT !.stack = <<>>, !.returned = Some(top.bounds_list)]
                        ELSE [t EXCEPT !.stack =
                                [i \in 1..(depth - 1) |->
                                   IF i = depth - 1
                                   THEN [t.stack[i] EXCEPT !.bounds_list = @ \o top.bounds_list, !.child = @ + 1]
                                   ELSE t.stack[i]]])
  /\ UNCHANGED <<tileset, collected, ingestVars, queryVars>>

NextTraverse == BeginTraversal \/ CallChild \/ ReturnFromCall

SpecTraverse == InitTraverse /\ [][NextTraverse]_vars

\* the traversal has returned to the caller of collect_tileset_bounds
TraversalReturned == ~IsNone(traversal) /\ ~IsNone(TheValue(traversal).returned)

\* the list returned is the list of the function taken as a whole
TraversalAgrees ==
  TraversalReturned => TheValue(TheValue(traversal).returned) = collect_tileset_bounds_core(tileset)

\* the interpreter runs the traversal on: a call that can be made or can
\* return is made or returns
SpecTraverseFair == SpecTraverse /\ WF_vars(NextTraverse)

\* the tiles below and including tile n in depth-first order, children in
\* the order of the tree
RECURSIVE Preorder(_, _)
Preorder(ts, n) ==
  <<n>> \o Flatten([i \in 1..Len(ts[n].children) |-> Preorder(ts, ts[n].children[i])])
\* the number of tiles on the longest path from tile n down to a leaf
RECURSIVE TreeDepth(_, _)
TreeDepth(ts, n) ==
  1 + SetMax({0} \cup {TreeDepth(ts, ts[n].children[i]) : i \in 1..Len(ts[n].children)})

\* no tile is entered twice, the tiles are entered in depth-first order, the
\* frames on the stack are the path from the root to the tile of the
\* innermost call, and there are never more frames than the tree is deep
TraversalIsDepthFirst ==
  ~IsNone(traversal) =>
    LET t == TheValue(traversal)
        order == Preorder(tileset, 1)
    IN /\ Len(t.entered) <= Len(order)
       /\ \A i \in 1..Len(t.entered) : t.entered[i] = order[i]
       /\ Len(t.stack) <= TreeDepth(tileset, 1)
       /\ t.stack # <<>> =>
            [i \in 1..Len(t.stack) |-> t.stack[i].tile] = PathTo(tileset, t.stack[Len(t.stack)].tile)
\* the traversal has returned and has entered every tile once
TraversalComplete ==
  /\ TraversalReturned
  /\ TheValue(traversal).entered = Preorder(tileset, 1)
  /\ Cardinality(Range(TheValue(traversal).entered)) = Len(tileset)

\* C25: the traversal of every finite tile tree terminates, is depth-first,
\* enters each node exactly once, and its recursion depth never exceeds the
\* depth of the tile tree.
C25_TraversalTerminatesDepthFirst == []TraversalIsDepthFirst /\ <>TraversalComplete

\* a chain of three tiles was traversed to the end
C25_ChainTraversed ==
  /\ TraversalReturned
  /\ Len(tileset) = 3 /\ TreeDepth(tileset, 1) = 3
  /\ TheValue(traversal).entered = <<1, 2, 3>>

\* C22: during traversal no node observes a sibling's transform: the matrix
\* a call works with is the product of the local transforms on the path
\* from the root to its tile, and the matrix of its caller is still the
\* product for the caller's tile after every child call, so that every
\* record is projected by the product of its own path.
C22_NoSiblingInterference ==
  ~IsNone(traversal) =>
    LET t == TheValue(traversal)
    IN /\ \A i \in 1..Len(t.stack) :
            LET frame == t.stack[i]
            IN /\ t.heap[frame.current_transform] = PathProduct(tileset, frame.tile)
               /\ t.heap[frame.parent_transform]
                    = IF frame.tile = 1 THEN Eye4 ELSE PathProduct(tileset, ParentOf(tileset, frame.tile))
       /\ ~IsNone(t.returned) =>
            \A i \in 1..Len(TheValue(t.returned)) : \E n \in DOMAIN tileset :
              /\ TheValue(t.returned)[i].tile_url = tileset[n].content_uri
              /\ TheValue(t.returned)[i].bounding_volume.coords
                   = FormatRing(RawRing(tileset, n, PathProduct(tileset, n)))

\* the second child of a translating root is running after its sibling with
\* a rotation returned
C22_SecondChildAfterRotatedSibling ==
  /\ ~IsNone(traversal)
  /\ Len(tileset) = 3
  /\ tileset[1].children = <<2, 3>>
  /\ tileset[1].transform = Some(Translate(10, 0, 0))
  /\ tileset[2].transform = Some(RotZ90)
  /\ TheValue(traversal).entered = <<1, 2, 3>>
  /\ Len(TheValue(traversal).stack) = 2

(***************************************************************************)
(* The solid-mode collect functions: collect_building_bounds of            *)
(* src/3DTilesParser.py, and collect_tileset_bounds of                     *)
(* src/3DTilesParserPoligonZ.py (CollectMulti), on a tile tree.            *)
(* The numbers of a box are Python floats ("float"), numpy scalars         *)
(* ("float64") or numpy arrays of one element ("array").                   *)
(***************************************************************************)
\* lines 65-105 of src/3DTilesParser.py: what the tile itself contributes.
\* "raise": bv._box is None (TypeError), the box is short (IndexError),
\* apply_transform or create_polyhedron_wkt raises.
OwnSolid(tile, transform, form) ==
  LET bv == tile.bounding_volume
  IN IF IsNone(bv) THEN [outcome |-> "none", list |-> <<>>]
     ELSE IF IsNone(TheValue(bv).box) THEN [outcome |-> "raise", list |-> <<>>]
     ELSE
       LET box == TheValue(TheValue(bv).box)
       IN IF Len(box) < 12 THEN [outcome |-> "raise", list |-> <<>>]
          ELSE
            LET local == PointsMulti(box)
                points == IF IsNone(transform)
                          THEN Returned([i \in 1..8 |-> [j \in 1..3 |-> Quotient(local[i][j], 1)]])
                          ELSE apply_transform_solid(local, TheValue(transform), form)
            IN IF points.raised THEN [outcome |-> "raise", list |-> <<>>]
               ELSE
                 LET polyhedron_wkt ==
                       create_polyhedron_wkt(
                         [i \in 1..8 |-> [j \in 1..3 |-> IF form = "array" THEN ArrayOf(points.list[i][j])
                                                         ELSE Scalar(points.list[i][j])]])
                 IN IF polyhedron_wkt.raised THEN [outcome |-> "raise", list |-> <<>>]
                    ELSE [outcome |-> "record",
                          list |-> << [bounding_volume |-> polyhedron_wkt.list[1],
                                       tile_url |-> tile.content_uri, refine |-> tile.refine] >>]

\* collect_building_bounds, lines 57-111.  A Tile object has the attribute
\* transform, so that line 61 takes tile.transform, which is None for a
\* tile without one, and base_transform is not read.
RECURSIVE collect_building_bounds(_, _, _, _)
collect_building_bounds(ts, n, base_transform, form) ==
  LET tile == ts[n]
      transform == tile.transform
      own == OwnSolid(tile, transform, form)
      kids == [i \in 1..Len(tile.children) |-> collect_building_bounds(ts, tile.children[i], transform, form)]
  IN IF own.outcome = "raise" THEN Raised
     ELSE IF \E i \in 1..Len(kids) : kids[i].raised THEN Raised
     ELSE Returned(own.list \o Flatten([i \in 1..Len(kids) |-> kids[i].list]))

SolidKinds ==
  { TileKind(Some(Translate(10, 0, 0)), BoxVolume(HighBox), None),
    TileKind(Some(Translate(10, 0, 0)), BoxVolume(BandBox), Some(Uri("c", ".b3dm"))),
    TileKind(Some(RotZ90), BoxVolume(HighBox), Some(Uri("b", ".b3dm"))),
    TileKind(None, BoxVolume(BandBox), Some(Uri("a", ".b3dm"))) }

InitSolid ==
  /\ \E n \in 1..MaxTiles : \E k \in [1..n -> SolidKinds] : \E p \in ParentMaps(n) :
       tileset = MakeTileset(n, k, p)
  /\ collected = None
  /\ IngestIdle
  /\ QueryIdle
  /\ traversal = None

\* collect_building_bounds(tileset.root_tile) of src/3DTilesParser.py
CollectSolid ==
  /\ collected = None
  /\ \E form \in {"float", "float64", "array"} :
       LET r == collect_building_bounds(tileset, 1, None, form)
       IN collected' = Some([script |-> "solid", form |-> form, raised |-> r.raised, list |-> r.list])
  /\ UNCHANGED <<tileset, ingestVars, queryVars, traversal>>

NextSolid == CollectSolid \/ CollectMulti

SpecSolid == InitSolid /\ [][NextSolid]_vars

\* the tiles with a bounding volume, in the order in which the solid-mode
\* functions reach them
SolidModeTiles(ts) ==
  LET HasVolume(n) == ~IsNone(ts[n].bounding_volume)
  IN SelectSeq(Preorder(ts, 1), HasVolume)
\* the corners of tile n as the solid-mode functions build them, projected
\* by the matrix M
ProjectedCorners(ts, n, M) ==
  LET local == PointsMulti(BoxOf(ts, n))
  IN [i \in 1..8 |-> [j \in 1..3 |-> Quotient(Project(M, local[i])[j], 1)]]
\* the volume that a script synthesises from 8 corners
VolumeOf(script, corners) ==
  IF script = "multi" THEN create_multipolygon_wkt(corners)
  ELSE create_polyhedron_wkt([i \in 1..8 |-> [j \in 1..3 |-> ArrayOf(corners[i][j])]]).list[1]

\* C24: in the solid-mode pipelines the corners of a node are projected by
\* the transform composed from the parent's world transform and the node's
\* own local transform: the product of both for a node with a local
\* transform below an ancestor with one, and the parent's world transform
\* for a node without a local transform.
C24_SolidModeComposesTransforms ==
  \A c \in TheCall :
    (c.script \in {"solid", "multi"} /\ ~c.raised) =>
      LET tiles == SolidModeTiles(tileset)
      IN /\ Len(c.list) = Len(tiles)
         /\ \A i \in 1..Len(tiles) :
              c.list[i].bounding_volume
                = VolumeOf(c.script, ProjectedCorners(tileset, tiles[i], PathProduct(tileset, tiles[i])))

(***************************************************************************)
(* The records of collect_tileset_bounds of the footprint script, tile by  *)
(* tile (statements about CollectCore).                                    *)
(***************************************************************************)
\* the content references of the tiles of ts that satisfy Keeps, in
\* depth-first order, children in the order of the tree
ReferencesInOrder(ts, Keeps(_)) ==
  LET kept == SelectSeq(Preorder(ts, 1), Keeps)
  IN [i \in 1..Len(kept) |-> ts[kept[i]].content_uri]
\* the content references of the records of a call, in the order of the list
ReferencesReturned(c) == [i \in 1..Len(c.list) |-> c.list[i].tile_url]

NonFiniteKinds ==
  { TileKind(Some(Translate(10, 0, 0)), BoxVolume(HighBox), None),
    TileKind(None, BoxVolume(BandBox), Some(Uri("a", ".b3dm"))),
    TileKind(Some(RotZ90), BoxVolume(NanBox), Some(Uri("n", ".b3dm"))) }

InitNonFinite ==
  /\ \E n \in 1..MaxTiles : \E k \in [1..n -> NonFiniteKinds] : \E p \in ParentMaps(n) :
       tileset = MakeTileset(n, k, p)
  /\ collected = None
  /\ IngestIdle
  /\ QueryIdle
  /\ traversal = None

NextNonFinite == CollectCore

SpecNonFinite == InitNonFinite /\ [][NextNonFinite]_vars

\* a box descriptor with a scalar that is not finite
NonFiniteBox(ts, n) ==
  /\ HasBox(ts[n])
  /\ \E i \in 1..Len(TheValue(TheValue(ts[n].bounding_volume).box)) :
       TheValue(TheValue(ts[n].bounding_volume).box)[i] = NaN

\* C11: a tile whose geometry has a non-finite coordinate is skipped: the
\* traversal returns, no record of such a tile is in the list handed to the
\* persistence step, and the other qualifying tiles are all in it.
C11_NonFiniteTileSkipped ==
  \A c \in TheCall :
    c.script = "core" =>
      /\ ~c.raised
      /\ \A v \in ContentRefs(tileset) :
           /\ CountRecords(c.list, v)
                <= Cardinality({n \in DOMAIN tileset : ~NonFiniteBox(tileset, n) /\ tileset[n].content_uri = v})
           /\ CountRecords(c.list, v)
                >= Cardinality({n \in DOMAIN tileset :
                                  /\ Qualifies(tileset, n) /\ HasBox(tileset[n]) /\ ~NonFiniteBox(tileset, n)
                                  /\ tileset[n].content_uri = v})

(***************************************************************************)
(* insert_buildings_to_postgis of src/core/tilesParserSinglePoligonZ.py    *)
(* and the data store.                                                     *)
(***************************************************************************)
\* hashlib.md5(tile_url.encode('utf-8')).hexdigest(): a function of the whole
\* string, taken to be free of collisions
Md5(uri) == [alg |-> "md5", name |-> uri.name, suffix |-> uri.suffix]
\* the values str(uuid.uuid4()) can return
UuidPool == {[alg |-> "uuid4", serial |-> k] : k \in 1..MaxUuids}

\* Python's truth value of b.get("tile_url"): a missing key, None and the
\* empty string are false
Truthy(tile_url) == ~IsNone(tile_url) /\ TheValue(tile_url) # Uri("", "")

\* What the calls of uuid.uuid4() of one run can return: a new value for
\* each element of building_data that has no tile_url, all distinct.
FreshChoices(building_data, used) ==
  {f \in [{i \in 1..Len(building_data) : ~Truthy(building_data[i].tile_url)} -> UuidPool \ used] :
     \A i, j \in DOMAIN f : i # j => f[i] # f[j]}
\* the value the call for element i returned (None if there was no call)
FreshAt(fresh, i) == IF i \in DOMAIN fresh THEN Some(fresh[i]) ELSE None

\* RecordOf with the hash taken of the directory and the content reference
RecordOfHashingDir(b, fresh) ==
  LET tile_url == IF Truthy(b.tile_url) THEN b.tile_url ELSE None
  IN [id |-> IF ~IsNone(tile_url)
             THEN Md5(Uri(b.tileset_dir, TheValue(tile_url).name))
             ELSE TheValue(fresh),
      name |-> "Building",
      tile_url |-> tile_url,
      ewkt |-> [srid |-> 4978, wkt |-> b.bounding_volume],
      refine |-> b.refine,
      properties |-> [tileset_dir |-> b.tileset_dir],
      height |-> b.height]

\* lines 203-231: the tuple built for one element of building_data; fresh is
\* what uuid.uuid4() returned, if it was called
RecordOf(b, fresh) ==
  LET tile_url == IF Truthy(b.tile_url) THEN b.tile_url ELSE None
  IN [id |-> IF ~IsNone(tile_url) THEN Md5(TheValue(tile_url)) ELSE TheValue(fresh),
      name |-> "Building",
      tile_url |-> tile_url,
      ewkt |-> [srid |-> 4978, wkt |-> b.bounding_volume],
      refine |-> b.refine,
      properties |-> [tileset_dir |-> b.tileset_dir],
      height |-> b.height]

\* ST_GeomFromEWKT on a POLYGON Z literal: the ring of parsed coordinates
ParseFixed6(f) == IF f.neg THEN -(f.whole) ELSE f.whole
ST_GeomFromEWKT(ewkt) ==
  [srid |-> ewkt.srid,
   ring |-> [i \in 1..Len(ewkt.wkt.coords) |->
               <<ParseFixed6(ewkt.wkt.coords[i][1]), ParseFixed6(ewkt.wkt.coords[i][2]),
                 ParseFixed6(ewkt.wkt.coords[i][3])>>]]

\* the row of dk_buildings that the INSERT of lines 195-199 makes of a tuple
RowOf(r) ==
  [id |-> r.id, name |-> r.name, tile_url |-> r.tile_url,
   bounding_volume |-> ST_GeomFromEWKT(r.ewkt), refine |-> r.refine,
   properties |-> r.properties, height |-> r.height]

Ids(rows) == {row.id : row \in rows}

\* the page of execute_batch that starts after `done` tuples
PageAfter(recs, done) == Slice(recs, done, done + PageSize)

\* id is the PRIMARY KEY of dk_buildings (line 178) and the INSERT has no ON
\* CONFLICT clause: a tuple whose id is in the table, or was inserted earlier
\* in the open transaction or the page, violates it
PageConflicts(page, committed, open) ==
  \E i \in 1..Len(page) :
    \/ page[i].id \in Ids(committed) \cup Ids(Range(open))
    \/ \E j \in 1..(i - 1) : page[j].id = page[i].id

\* the identifiers a call gave, each with the content reference it was given for
IssuedBy(r, recs) == {[tile_url |-> recs[i].tile_url, id |-> recs[i].id] : i \in 1..Len(recs)}

(***************************************************************************)
(* The loop of insert_buildings_to_postgis that builds the tuples (lines   *)
(* 201-231), called with building_data of any content references.          *)
(***************************************************************************)
\* an element as collect_tileset_bounds makes it
SampleElement ==
  collect_tileset_bounds_core(
    MakeTileset(1, <<TileKind(None, BoxVolume(BandBox), Some(Uri("a", ".b3dm")))>>, <<>>))[1]
DataElement(tile_url, tileset_dir) ==
  [SampleElement EXCEPT !.tile_url = tile_url, !.tileset_dir = tileset_dir]
DataElements ==
  { DataElement(None, TilesetDir), DataElement(Some(Uri("", "")), TilesetDir),
    DataElement(Some(Uri("a", ".b3dm")), TilesetDir), DataElement(Some(Uri("a", ".b3dm")), "other") }
DataLists == UNION {[1..n -> DataElements] : n \in 0..MaxData}

InitIdentity ==
  /\ tileset = <<>>
  /\ collected = None
  /\ IngestIdle
  /\ QueryIdle
  /\ traversal = None

BuildRecords ==
  /\ run < MaxRuns
  /\ \E building_data \in DataLists :
       \E fresh \in FreshChoices(building_data, {e.id : e \in issued}) :
         /\ collected' = Some([script |-> "caller", raised |-> FALSE, list |-> building_data])
         /\ records' = [i \in 1..Len(building_data) |-> RecordOf(building_data[i], FreshAt(fresh, i))]
         /\ issued' = issued \cup IssuedBy(run + 1, records')
  /\ run' = run + 1
  /\ UNCHANGED <<tileset, pc, sent, pending, store, response, store_at_start, open_connections, queryVars, traversal>>

NextIdentity == BuildRecords

SpecIdentity == InitIdentity /\ [][NextIdentity]_vars

\* C3: the identifier is a function of the content reference when one is
\* given: over all the calls, two tuples built for the same content
\* reference have the same identifier, and it is a content hash, not one of
\* the random identifiers; a tuple gets a random identifier exactly when it
\* was built for an element without content reference.
C3_IdentifierDeterministic ==
  /\ \A e1, e2 \in issued :
       (~IsNone(e1.tile_url) /\ e1.tile_url = e2.tile_url) => e1.id = e2.id
  /\ \A e \in issued : (e.id \in UuidPool) <=> IsNone(e.tile_url)
  /\ \A i \in 1..Len(records) :
       LET given == TheValue(collected).list[i].tile_url
       IN /\ Truthy(given) => records[i].tile_url = given
          /\ ~Truthy(given) => records[i].tile_url = None

\* two calls were given the same content reference under different
\* directories, and an element without content reference
C3_SameReferenceTwice ==
  /\ run = 2 /\ Len(records) = 2
  /\ records[1].tile_url = Some(Uri("a", ".b3dm")) /\ records[1].properties.tileset_dir = "other"
  /\ IsNone(records[2].tile_url) /\ records[2].id \in UuidPool
  /\ \E e \in issued : e.tile_url = records[1].tile_url /\ e.id = records[1].id
  /\ Cardinality({e \in issued : IsNone(e.tile_url)}) >= 2

(***************************************************************************)
(* POST /init-data (src/api/main.py, initialize_data): one tileset is      *)
(* found under the root directory.                                         *)
(***************************************************************************)
IngestKinds ==
  { TileKind(Some(Translate(10, 0, 0)), BoxVolume(HighBox), None),
    TileKind(None, BoxVolume(BandBox), Some(Uri("a", ".b3dm"))),
    TileKind(Some(RotZ90), BoxVolume(HighBox), Some(Uri("b", ".B3DM"))) }

\* the tree shapes of the ingested tilesets: every tile hangs below the root
\* or below the tile before it (flat trees, chains and their mixtures)
IngestParentMaps(n) == {p \in ParentMaps(n) : \A i \in 2..n : p[i] \in {1, i - 1}}

InitIngest ==
  /\ \E n \in 1..MaxIngestTiles : \E k \in [1..n -> IngestKinds] : \E p \in IngestParentMaps(n) :
       tileset = MakeTileset(n, k, p)
  /\ collected = None
  /\ IngestIdle
  /\ QueryIdle
  /\ traversal = None

\* get_db_connection with conn.close() after the yield instead of in a
\* finally clause: the connection is closed only when the block ends normally
get_db_connection_exit_without_finally(open, raised) ==
  IF open > 0 /\ ~raised THEN open - 1 ELSE open

\* the way out of get_db_connection, lines 24-29 of database_conn.py: the
\* finally clause closes the connection if one was opened, whether the
\* with-block ended normally or raised; the result is the number of
\* connections still open
get_db_connection_exit(open, raised) ==
  IF open > 0 THEN open - 1 ELSE open

\* psycopg2.connect raises: the handler answers with the error
ConnectFails ==
  /\ pc = "idle" /\ run < MaxRuns
  /\ run' = run + 1
  /\ records' = <<>> /\ sent' = 0
  /\ response' = Some([status |-> "error", message |-> "connection failed"])
  /\ store_at_start' = store
  /\ open_connections' = get_db_connection_exit(open_connections, TRUE)
  /\ UNCHANGED <<tileset, collected, pc, pending, store, issued, queryVars, traversal>>

\* the connection opens; init_tileset collects the tiles; the table is
\* created and committed (lines 191-193); the tuples are built (201-231)
StartInit ==
  /\ pc = "idle" /\ run < MaxRuns
  /\ LET building_data == collect_tileset_bounds_core(tileset)
     IN \E fresh \in FreshChoices(building_data, {e.id : e \in issued}) :
          /\ records' = [i \in 1..Len(building_data) |-> RecordOf(building_data[i], FreshAt(fresh, i))]
          /\ issued' = issued \cup IssuedBy(run + 1, records')
  /\ store_at_start' = store
  /\ run' = run + 1
  /\ sent' = 0
  /\ pending' = <<>>
  /\ response' = None
  /\ pc' = "insert"
  /\ open_connections' = open_connections + 1
  /\ UNCHANGED <<tileset, collected, store, queryVars, traversal>>

\* ExecutePage with a commit after every page
ExecutePageCommitting ==
  /\ pc = "insert" /\ sent < Len(records)
  /\ LET page == PageAfter(records, sent)
     IN IF PageConflicts(page, store, pending)
        THEN /\ pc' = "conflict"
             /\ UNCHANGED <<sent, pending, store>>
        ELSE /\ store' = store \cup {RowOf(page[i]) : i \in 1..Len(page)}
             /\ pending' = pending
             /\ sent' = sent + Len(page)
             /\ pc' = "insert"
  /\ UNCHANGED <<tileset, collected, run, records, response, store_at_start, issued, open_connections, queryVars, traversal>>

\* execute_batch sends the next page of statements (line 235)
ExecutePage ==
  /\ pc = "insert" /\ sent < Len(records)
  /\ LET page == PageAfter(records, sent)
     IN IF PageConflicts(page, store, pending)
        THEN /\ pc' = "conflict"
             /\ UNCHANGED <<sent, pending>>
        ELSE /\ pending' = pending \o [i \in 1..Len(page) |-> RowOf(page[i])]
             /\ sent' = sent + Len(page)
             /\ pc' = "insert"
  /\ UNCHANGED <<tileset, collected, run, records, store, response, store_at_start, issued, open_connections, queryVars, traversal>>

\* the store fails a statement of the run (connection lost, server error)
StoreFails ==
  /\ pc = "insert"
  /\ pc' = "failed"
  /\ UNCHANGED <<tileset, collected, run, records, sent, pending, store, response, store_at_start, issued,
                 open_connections, queryVars, traversal>>

\* conn.commit() of line 236, then the connection is closed and the handler
\* answers (api/main.py line 30)
CommitInsert ==
  /\ pc = "insert" /\ sent = Len(records)
  /\ store' = store \cup Range(pending)
  /\ pending' = <<>>
  /\ response' = Some([status |-> "success", result |-> "Data initialized successfully."])
  /\ pc' = "idle"
  /\ open_connections' = get_db_connection_exit(open_connections, FALSE)
  /\ UNCHANGED <<tileset, collected, run, records, sent, store_at_start, issued, queryVars, traversal>>

\* AbortInit with the connection committing what is open when it is left
AbortInitCommitting ==
  /\ pc \in {"conflict", "failed"}
  /\ store' = store \cup Range(pending)
  /\ pending' = <<>>
  /\ response' = Some([status |-> "error",
                       message |-> IF pc = "conflict" THEN "duplicate key" ELSE "store error"])
  /\ pc' = "idle"
  /\ open_connections' = get_db_connection_exit(open_connections, TRUE)
  /\ UNCHANGED <<tileset, collected, run, records, sent, store_at_start, issued, queryVars, traversal>>

\* the exception leaves insert_buildings_to_postgis and init_tileset; the
\* context manager closes the connection, which discards the open
\* transaction; the handler answers with the message (api/main.py 32-33)
AbortInit ==
  /\ pc \in {"conflict", "failed"}
  /\ pending' = <<>>
  /\ response' = Some([status |-> "error",
                       message |-> IF pc = "conflict" THEN "duplicate key" ELSE "store error"])
  /\ pc' = "idle"
  /\ open_connections' = get_db_connection_exit(open_connections, TRUE)
  /\ UNCHANGED <<tileset, collected, run, records, sent, store, store_at_start, issued, queryVars, traversal>>

NextIngest == ConnectFails \/ StartInit \/ ExecutePage \/ StoreFails \/ CommitInsert \/ AbortInit

SpecIngest == InitIngest /\ [][NextIngest]_vars

(***************************************************************************)
(* Properties of the ingestion runs.                                       *)
(***************************************************************************)
\* the run that just ended answered with an error of the insert
InsertFailed ==
  /\ pc = "idle" /\ ~IsNone(response)
  /\ TheValue(response).status = "error"
  /\ TheValue(response).message \in {"duplicate key", "store error"}

RowsOf(recs) == {RowOf(recs[i]) : i \in 1..Len(recs)}

\* C4: re-ingesting an unchanged tileset whose identifiers are content
\* hashes is idempotent: when the first run has stored its records and the
\* store does not fail, the second run completes with success and the store
\* holds the same records as after the first run.
C4_ReingestIdempotent ==
  (/\ run = 2 /\ pc = "idle" /\ ~IsNone(response)
   /\ store_at_start = RowsOf(records) /\ records # <<>>
   /\ TheValue(response).status = "error" => TheValue(response).message = "duplicate key")
  => /\ TheValue(response).status = "success"
     /\ store = store_at_start

C19_ConnectionReleased ==
  /\ pc \in {"insert", "conflict", "failed"} => open_connections = 1
  /\ pc = "idle" => open_connections = 0

\* a run that opened a connection, sent tuples and was refused a statement
C19_ReleasedAfterRefusedStatement ==
  /\ InsertFailed /\ TheValue(response).message = "duplicate key"
  /\ store # {}
  /\ open_connections = 0

\* the run that just ended answered with success
InsertSucceeded ==
  /\ pc = "idle" /\ run > 0 /\ ~IsNone(response)
  /\ TheValue(response).status = "success"

\* C28: within one ingestion run any two distinct persisted tiles receive
\* distinct record identifiers: the tuples that the bulk insert presents
\* (one for each collected tile) have pairwise distinct ids.
C28_DistinctTilesDistinctIds ==
  \A i, j \in 1..Len(records) : i # j => records[i].id # records[j].id

\* C21: an ingestion run reports aggregate counts to its caller: the number
\* of tiles visited, the number persisted and the skipped tiles with their
\* reasons, and visited = persisted + skipped.
C21_RunReportsCounts ==
  InsertSucceeded =>
    LET answer == TheValue(response)
    IN /\ {"visited", "persisted", "skipped"} \subseteq DOMAIN answer
       /\ answer.visited = Len(tileset)
       /\ answer.persisted = Len(records)
       /\ answer.visited = answer.persisted + Len(answer.skipped)

(***************************************************************************)
(* check_collision_in_db of src/collision/collision_detector.py.           *)
(***************************************************************************)
ST_ExteriorRing(geom) == geom.ring
ST_PointN(ring, k) == ring[k]
ST_Z(point) == point[3]
ST_Force2D(geom) == [i \in 1..Len(geom.ring) |-> <<geom.ring[i][1], geom.ring[i][2]>>]

\* the point p lies on the segment from a to b
OnSegment(p, a, b) ==
  /\ (b[1] - a[1]) * (p[2] - a[2]) = (b[2] - a[2]) * (p[1] - a[1])
  /\ Min2(a[1], b[1]) <= p[1] /\ p[1] <= -Min2(-a[1], -b[1])
  /\ Min2(a[2], b[2]) <= p[2] /\ p[2] <= -Min2(-a[2], -b[2])

\* the ray from p in the direction of growing x crosses the edge from a to b
RayCrosses(p, a, b) ==
  LET dy == b[2] - a[2]
      t == (p[1] - a[1]) * dy - (p[2] - a[2]) * (b[1] - a[1])
  IN /\ (a[2] > p[2]) # (b[2] > p[2])
     /\ (dy > 0 /\ t < 0) \/ (dy < 0 /\ t > 0)

\* ST_Intersects of a polygon without holes and a point: the point is on the
\* ring or an odd number of edges is crossed
ST_Intersects(ring2d, p) ==
  LET edges == 1..(Len(ring2d) - 1)
  IN \/ \E i \in edges : OnSegment(p, ring2d[i], ring2d[i + 1])
     \/ Cardinality({i \in edges : RayCrosses(p, ring2d[i], ring2d[i + 1])}) % 2 = 1

\* the WHERE clause of lines 22-30
WhereClause(row, x, y, z) ==
  LET ground_z == ST_Z(ST_PointN(ST_ExteriorRing(row.bounding_volume), 1))
  IN /\ ST_Intersects(ST_Force2D(row.bounding_volume), <<x, y>>)
     /\ z >= ground_z
     /\ ~IsNone(row.height)
     /\ z <= ground_z + TheValue(row.height)

\* the WHERE clause with the top of the building excluded
WhereClauseBelowTop(row, x, y, z) ==
  LET ground_z == ST_Z(ST_PointN(ST_ExteriorRing(row.bounding_volume), 1))
  IN /\ ST_Intersects(ST_Force2D(row.bounding_volume), <<x, y>>)
     /\ z >= ground_z
     /\ ~IsNone(row.height)
     /\ z < ground_z + TheValue(row.height)

\* the SELECT list of lines 15-19
SelectList(row) ==
  [id |-> row.id, tile_url |-> row.tile_url, source_dir |-> row.properties.tileset_dir,
   height |-> row.height,
   ground_z |-> ST_Z(ST_PointN(ST_ExteriorRing(row.bounding_volume), 1))]

\* check_collision_in_db with the top of the building excluded
check_collision_below_top(rows, point_x, point_y, point_z) ==
  {SelectList(row) : row \in {r \in rows : WhereClauseBelowTop(r, point_x, point_y, point_z)}}

\* lines 8-41: the rows fetchall() returns (a query without ORDER BY: the
\* rows as a set)
check_collision_in_db(rows, point_x, point_y, point_z) ==
  {SelectList(row) : row \in {r \in rows : WhereClause(r, point_x, point_y, point_z)}}

(***************************************************************************)
(* wgs84_to_ecef of src/utils/coordinate.py at the poles and on the        *)
(* equator at longitudes 0, 90 and -90, to the metre.                      *)
(***************************************************************************)
\* the semi-axes of the WGS84 ellipsoid (EPSG:4326, EPSG:4978), in metres
SemiMajor == 6378137
SemiMinor == 6356752

wgs84_to_ecef(lon, lat, alt) ==
  IF lat = 90 THEN <<0, 0, SemiMinor + alt>>
  ELSE IF lat = -90 THEN <<0, 0, -(SemiMinor + alt)>>
  ELSE IF lon = 0 THEN <<SemiMajor + alt, 0, 0>>
  ELSE IF lon = 90 THEN <<0, SemiMajor + alt, 0>>
  ELSE <<0, -(SemiMajor + alt), 0>>

(***************************************************************************)
(* Collision queries: check_collision_in_db called with a point, and       *)
(* GET /collision (src/api/main.py, detect_collision), on a table filled   *)
(* by ingestion runs.                                                      *)
(***************************************************************************)
\* center (0,0,2), half axes (1,1,0), (-1,1,0), (0,0,2): the footprint is the
\* square with the corners (0,-2), (2,0), (0,2), (-2,0)
DiamondBox == <<0, 0, 2,  1, 1, 0,  -1, 1, 0,  0, 0, 2>>

\* the row an ingestion run stores for a tileset of the one leaf
StoredRow(t, box, name) ==
  RowOf(RecordOf(collect_tileset_bounds_core(
                   MakeTileset(1, <<TileKind(t, BoxVolume(box), Some(Uri(name, ".b3dm")))>>, <<>>))[1],
                 None))

BandRow == StoredRow(None, BandBox, "a")
HighRow == StoredRow(Some(RotZ90), HighBox, "b")
DiamondRow == StoredRow(None, DiamondBox, "c")
FlatRow == StoredRow(None, FlatBox, "d")
EquatorRow == StoredRow(Some(Translate(SemiMajor, 0, 0)), BandBox, "e")
Catalogue == {BandRow, HighRow, DiamondRow, FlatRow, EquatorRow}

QueryAlts == {-1, 0, 4, 5, 10, 15, 16}
QueryPoints == {<<x, y, z>> : x \in (-MaxCoord)..MaxCoord, y \in (-MaxCoord)..MaxCoord, z \in QueryAlts}
QueryAngles == {-90, 0, 90}

InitQuery ==
  /\ tileset = <<>>
  /\ collected = None
  /\ pc = "idle" /\ run = 0 /\ records = <<>> /\ sent = 0 /\ pending = <<>>
  /\ store \in SUBSET Catalogue
  /\ response = None /\ store_at_start = {} /\ issued = {}
  /\ open_connections = 0
  /\ QueryIdle
  /\ traversal = None

\* CheckCollision with a statement that deletes the rows it returns
CheckCollisionConsuming ==
  /\ query = None
  /\ \E p \in QueryPoints :
       LET matched == {row \in store : WhereClause(row, p[1], p[2], p[3])}
       IN /\ query' = Some([via |-> "function", input |-> None, point |-> Some(p)])
          /\ result' = Some([status |-> "returned", collisions |-> check_collision_in_db(store, p[1], p[2], p[3])])
          /\ store' = store \ matched
  /\ UNCHANGED <<tileset, collected, pc, run, records, sent, pending, response, store_at_start, issued,
                 open_connections, traversal>>

\* check_collision_in_db called on an open connection with a point
CheckCollision ==
  /\ query = None
  /\ \E p \in QueryPoints :
       /\ query' = Some([via |-> "function", input |-> None, point |-> Some(p)])
       /\ result' = Some([status |-> "returned", collisions |-> check_collision_in_db(store, p[1], p[2], p[3])])
  /\ UNCHANGED <<tileset, collected, ingestVars, traversal>>

\* detect_collision where the conversion, the connection or the query
\* raises: the handler answers with the message (lines 61-62)
DetectCollisionFailsReturningRows ==
  /\ query = None
  /\ \E lon \in QueryAngles, lat \in QueryAngles, alt \in QueryAlts :
       \E cause \in {"conversion", "connection", "store"} :
         /\ query' = Some([via |-> "api", input |-> Some(<<lon, lat, alt>>),
                           point |-> IF cause = "conversion" THEN None
                                     ELSE Some(wgs84_to_ecef(lat, lon, alt))])
         /\ \E part \in SUBSET store :
              result' = Some([status |-> "error", message |-> cause,
                              collisions |-> {SelectList(row) : row \in part}])
         /\ open_connections' = IF cause = "conversion" THEN open_connections
                                ELSE IF cause = "connection" THEN get_db_connection_exit(open_connections, TRUE)
                                ELSE get_db_connection_exit(open_connections + 1, TRUE)
  /\ UNCHANGED <<tileset, collected, ingestData, traversal>>

DetectCollisionFails ==
  /\ query = None
  /\ \E lon \in QueryAngles, lat \in QueryAngles, alt \in QueryAlts :
       \E cause \in {"conversion", "connection", "store"} :
         /\ query' = Some([via |-> "api", input |-> Some(<<lon, lat, alt>>),
                           point |-> IF cause = "conversion" THEN None
                                     ELSE Some(wgs84_to_ecef(lat, lon, alt))])
         /\ result' = Some([status |-> "error", message |-> cause])
         /\ open_connections' = IF cause = "conversion" THEN open_connections
                                ELSE IF cause = "connection" THEN get_db_connection_exit(open_connections, TRUE)
                                ELSE get_db_connection_exit(open_connections + 1, TRUE)
  /\ UNCHANGED <<tileset, collected, ingestData, traversal>>

\* detect_collision, lines 45-59: the arguments are passed to wgs84_to_ecef
\* in the order lat, lon, alt
DetectCollision ==
  /\ query = None
  /\ \E lon \in QueryAngles, lat \in QueryAngles, alt \in QueryAlts :
       LET xyz == wgs84_to_ecef(lat, lon, alt)
       IN /\ query' = Some([via |-> "api", input |-> Some(<<lon, lat, alt>>), point |-> Some(xyz)])
          /\ result' = Some([status |-> "success",
                             point |-> [x |-> xyz[1], y |-> xyz[2], z |-> xyz[3]],
                             collisions |-> check_collision_in_db(store, xyz[1], xyz[2], xyz[3])])
  /\ open_connections' = get_db_connection_exit(open_connections + 1, FALSE)
  /\ UNCHANGED <<tileset, collected, ingestData, traversal>>

NextQuery == CheckCollision \/ DetectCollision \/ DetectCollisionFails

SpecQuery == InitQuery /\ [][NextQuery]_vars

(***************************************************************************)
(* Properties of the collision queries.                                    *)
(***************************************************************************)
\* p is inside or on the boundary of a convex ring: it is on the same side
\* of every edge, or on the edge's line
InsideOrOnConvex(ring2d, p) ==
  LET side(i) == (ring2d[i + 1][1] - ring2d[i][1]) * (p[2] - ring2d[i][2])
                   - (ring2d[i + 1][2] - ring2d[i][2]) * (p[1] - ring2d[i][1])
      edges == 1..(Len(ring2d) - 1)
  IN (\A i \in edges : side(i) >= 0) \/ (\A i \in edges : side(i) <= 0)

Footprint2D(row) == [i \in 1..Len(row.bounding_volume.ring) |->
                       <<row.bounding_volume.ring[i][1], row.bounding_volume.ring[i][2]>>]
GroundZ(row) == row.bounding_volume.ring[1][3]
\* the stored records the point collides with
Colliding(rows, p) ==
  {row \in rows : /\ InsideOrOnConvex(Footprint2D(row), <<p[1], p[2]>>)
                  /\ GroundZ(row) <= p[3]
                  /\ p[3] <= GroundZ(row) + TheValue(row.height)}
ReturnedIds(r) == {c.id : c \in r.collisions}

ExampleRing == << <<-1, -1>>, <<1, -1>>, <<1, 1>>, <<-1, 1>>, <<-1, -1>> >>

\* C1: check_collision_in_db returns exactly the stored records whose
\* flattened footprint has the point's (x, y) inside or on its boundary and
\* whose ground_z (the z of the first ring vertex) and height give
\* ground_z <= z <= ground_z + height, both ends included, all of them and
\* nothing else; for the ring (-1,-1),(1,-1),(1,1),(-1,1) with ground_z 0 and
\* height 10 the points (0,0,5), (0,0,0), (0,0,10) match and (0,0,15),
\* (2,2,5) do not.
C1_ExactlyTheCollidingRecords ==
  (~IsNone(result) /\ TheValue(result).status \in {"returned", "success"}) =>
    LET r == TheValue(result)
        p == TheValue(TheValue(query).point)
    IN /\ ReturnedIds(r) = {row.id : row \in Colliding(store, p)}
       /\ Cardinality(r.collisions) = Cardinality(Colliding(store, p))
       /\ \A c \in r.collisions : \E row \in store :
            /\ c.id = row.id /\ c.tile_url = row.tile_url /\ c.height = row.height
            /\ c.ground_z = GroundZ(row)
       /\ \A row \in store :
            (Footprint2D(row) = ExampleRing /\ GroundZ(row) = 0 /\ row.height = Some(10)) =>
              /\ p \in {<<0, 0, 5>>, <<0, 0, 0>>, <<0, 0, 10>>} => row.id \in ReturnedIds(r)
              /\ p \in {<<0, 0, 15>>, <<2, 2, 5>>} => row.id \notin ReturnedIds(r)

\* a point on the top of one building and inside another: both are returned
C1_TwoBuildingsAtTheTop ==
  /\ ~IsNone(result) /\ TheValue(result).status = "returned"
  /\ TheValue(query).point = Some(<<-1, 1, 10>>)
  /\ {BandRow.id, HighRow.id} \subseteq ReturnedIds(TheValue(result))
  /\ Footprint2D(BandRow) = ExampleRing /\ GroundZ(BandRow) = 0 /\ BandRow.height = Some(10)

\* C8: a collision query that fails answers with an error that carries no
\* collision data, and one that succeeds answers with the complete set of
\* matches of the converted point: never a partial set.
C8_ErrorOrCompleteSet ==
  (~IsNone(result) /\ TheValue(query).via = "api") =>
    LET r == TheValue(result)
    IN /\ r.status \in {"success", "error"}
       /\ r.status = "error" => DOMAIN r = {"status", "message"}
       /\ r.status = "success" =>
            /\ DOMAIN r = {"status", "point", "collisions"}
            /\ ReturnedIds(r) = {row.id : row \in Colliding(store, TheValue(TheValue(query).point))}

\* the query fails on a table that holds a record the point collides with
C8_FailedWithMatchesInStore ==
  /\ ~IsNone(result) /\ TheValue(query).via = "api"
  /\ TheValue(result).status = "error" /\ TheValue(result).message = "store"
  /\ Colliding(store, TheValue(TheValue(query).point)) # {}
  /\ "collisions" \notin DOMAIN TheValue(result)

\* C26: GET /collision converts the geodetic point it receives with each
\* value in the role wgs84_to_ecef declares: the received longitude as lon,
\* the received latitude as lat, the altitude as alt; the collision engine
\* is called with the converted point.
C26_ArgumentsInDeclaredRoles ==
  (~IsNone(query) /\ TheValue(query).via = "api" /\ ~IsNone(TheValue(query).point)) =>
    LET received == TheValue(TheValue(query).input)
    IN TheValue(TheValue(query).point) = wgs84_to_ecef(received[1], received[2], received[3])

\* C20: a collision query is read-only: whatever the query point and the
\* store, the set of persisted records and the fields of each record are
\* the same after check_collision_in_db or the handler returned or failed.
C20_QueryIsReadOnly == [][store' = store]_vars

\* a query that returned rows of a store with several records
C20_QueriedWithMatches ==
  /\ ~IsNone(result) /\ TheValue(result).status = "returned"
  /\ TheValue(result).collisions # {}
  /\ Cardinality(store) >= 2

(***************************************************************************)
(* The vertical band of a persisted footprint record: the row that the     *)
(* INSERT makes of a record of collect_tileset_bounds, read as             *)
(* check_collision_in_db reads it.                                         *)
(***************************************************************************)
\* the row stored for the record c.list[i]
PersistedRow(c, i) == RowOf(RecordOf(c.list[i], None))
\* the z of the 8 corners of tile n under the product of its path
WorldZ(ts, n) ==
  {Project(PathProduct(ts, n), OrderedCorners(BoxOf(ts, n))[k])[3] : k \in 1..8}

\* C30: the footprint ring of every persisted footprint record is
\* horizontal after projection (all ring vertices share one z), so that the
\* ground_z read from the first ring vertex is the z of the whole footprint
\* and [ground_z, ground_z + height] is the world-space vertical extent of
\* the projected box.
C30_RingHorizontalAndBandIsExtent ==
  \A c \in TheCall :
    c.script = "core" =>
      \A i \in 1..Len(c.list) : \E n \in DOMAIN tileset :
        LET row == PersistedRow(c, i)
            ring == ST_ExteriorRing(row.bounding_volume)
            ground_z == ST_Z(ST_PointN(ring, 1))
        IN /\ StemsFrom(c, i, n)
           /\ c.list[i].bounding_volume.coords = FormatRing(RawRing(tileset, n, PathProduct(tileset, n)))
           /\ \A k \in 1..Len(ring) : ST_Z(ST_PointN(ring, k)) = ground_z
           /\ ground_z = SetMin(WorldZ(tileset, n))
           /\ ground_z + TheValue(row.height) = SetMax(WorldZ(tileset, n))

=============================================================================
